---------------------------- MODULE Spec2Model ----------------------------
(***************************************************************************)
(* Signaling server of the meeting application: the meeting-id helpers     *)
(* (backend/src/utils/expiry.ts), the room registry (mediasoup/room.ts)    *)
(* and the per-connection socket handlers (backend/src/server.ts).         *)
(*                                                                         *)
(* A string is a sequence of one-character strings.  A JavaScript number   *)
(* is a record [nan, val]; NaN is [nan |-> TRUE, val |-> 0].               *)
(***************************************************************************)
EXTENDS Integers, Sequences, FiniteSets, Bags, TLC

VARIABLES
    now,        \* Date.now(), milliseconds
    expId,      \* argument handed to the expiry helpers (a string or NotAString)
    expGenAt,   \* Date.now() when generateMeetingId produced expId, else -1
    expOut,     \* what the helpers returned for expId at the time of the call
    status,     \* status[c]: "new" (not yet connected), "open" or "closed"
    socketData, \* socket.data of each connection (roomId, userId, username)
    rooms,      \* the registry: const rooms = new Map<string, Room>()
    routers,    \* every router the media worker created: [id, roomId]
    subs,       \* subs[c]: the socket.io rooms connection c has joined
    inbox,      \* inbox[c]: bag of the events delivered to connection c
    tasks,      \* handlers suspended at an await
    known,      \* room ids a client can name in a request
    hist,       \* history: successful joins, connections that ran handleDisconnect
    engine,     \* the media worker's objects: transports, producers, consumers
    heap,       \* number of Peer objects allocated so far (object identity)
    proc,       \* the server process: its media worker, its exit status
    last,       \* the step just taken: [seq, req, op, conn, roomId, reply, ...]
    disk,       \* data/: users.json, metadata.json, the files of recordings/
    dq,         \* the DeletionQueue singleton and its suspended passes
    http,       \* the HTTP exchange just served: request and response
    trail,      \* history: ids enqueued, re-queued and handled, userIds returned
    client      \* one browser's WebRTCManager and the transports it was given

vars == <<now, expId, expGenAt, expOut, status, socketData, rooms, routers, subs,
          inbox, tasks, known, hist, engine, heap, proc, last,
          disk, dq, http, trail, client>>

sigVars == <<status, socketData, rooms, routers, subs, inbox, tasks,
             known, hist, engine, heap, proc, last>>

appVars == <<disk, dq, http, trail, client>>

-----------------------------------------------------------------------------
(* Bounds of the model *)

MaxTicks == 2        \* clock advances while the expiry helpers are exercised
NumConns == 2        \* connections
MaxSegLen == 2       \* length of the free-form trailing segments tried
MaxSteps == 3        \* client requests and clock ticks in a behaviour
MaxShort == 2        \* the same, in the short runs with every action
MaxMedia == 4        \* client requests in the runs with every replying handler
MaxProduce == 5      \* client requests in the runs that join and produce

-----------------------------------------------------------------------------
(* Strings *)

DecDigits == <<"0", "1", "2", "3", "4", "5", "6", "7", "8", "9">>
HexDigits == <<"0", "1", "2", "3", "4", "5", "6", "7", "8", "9",
               "a", "b", "c", "d", "e", "f">>

\* value of ch as a digit of the given radix, -1 when it is none
DigitValue(ch, radix) ==
    LET lower == {i \in 1..16 : HexDigits[i] = ch}
        upper == {i \in 11..16 : <<"A", "B", "C", "D", "E", "F">>[i - 10] = ch}
        v == IF lower # {} THEN (CHOOSE i \in lower : TRUE) - 1
             ELSE IF upper # {} THEN (CHOOSE i \in upper : TRUE) - 1
             ELSE -1
    IN IF v >= 0 /\ v < radix THEN v ELSE -1

RECURSIVE ToDecimal(_)
\* Number.prototype.toString of a non-negative integer (template literal)
ToDecimal(n) ==
    IF n < 10 THEN <<DecDigits[n + 1]>>
    ELSE ToDecimal(n \div 10) \o <<DecDigits[(n % 10) + 1]>>

RECURSIVE ToHex(_)
\* Buffer.toString('hex'): two lowercase hex characters per byte
ToHex(bytes) ==
    IF bytes = <<>> THEN <<>>
    ELSE <<HexDigits[(Head(bytes) \div 16) + 1], HexDigits[(Head(bytes) % 16) + 1]>>
         \o ToHex(Tail(bytes))

RECURSIVE SplitFrom(_, _, _)
SplitFrom(s, sep, cur) ==
    IF s = <<>> THEN <<cur>>
    ELSE IF Head(s) = sep THEN <<cur>> \o SplitFrom(Tail(s), sep, <<>>)
    ELSE SplitFrom(Tail(s), sep, Append(cur, Head(s)))

\* String.prototype.split(sep) with a one-character separator
Split(s, sep) == SplitFrom(s, sep, <<>>)

-----------------------------------------------------------------------------
(* JavaScript numbers and parseInt *)

NaN == [nan |-> TRUE, val |-> 0]
Num(v) == [nan |-> FALSE, val |-> v]
isNaN(x) == x.nan

RECURSIVE TrimStart(_)
TrimStart(s) ==
    IF s # <<>> /\ Head(s) \in {" ", "\t"} THEN TrimStart(Tail(s)) ELSE s

RECURSIVE ParseDigits(_, _, _, _)
\* the longest prefix of radix digits; NaN when it is empty
ParseDigits(s, radix, acc, seen) ==
    IF s # <<>> /\ DigitValue(Head(s), radix) >= 0
    THEN ParseDigits(Tail(s), radix, acc * radix + DigitValue(Head(s), radix), TRUE)
    ELSE IF seen THEN Num(acc) ELSE NaN

\* parseInt(string) with no radix argument
parseInt(str) ==
    LET s1 == TrimStart(str)
        neg == s1 # <<>> /\ Head(s1) = "-"
        s2 == IF s1 # <<>> /\ Head(s1) \in {"+", "-"} THEN Tail(s1) ELSE s1
        hex == Len(s2) >= 2 /\ s2[1] = "0" /\ s2[2] \in {"x", "X"}
        s3 == IF hex THEN Tail(Tail(s2)) ELSE s2
        r == ParseDigits(s3, IF hex THEN 16 ELSE 10, 0, FALSE)
    IN IF isNaN(r) THEN NaN ELSE Num(IF neg THEN 0 - r.val ELSE r.val)

-----------------------------------------------------------------------------
(* backend/src/utils/expiry.ts *)

\* a value that is not a string (undefined, a number, an object): calling
\* .split on it throws a TypeError.  No string has a two-character element.
NotAString == <<"not a string">>

twentyFourHours == 24 * 60 * 60 * 1000
msPerHour == 60 * 60 * 1000

generateMeetingId_seconds(randomBytes, timestamp) ==
    ToHex(randomBytes) \o <<"-">> \o ToDecimal(timestamp \div 1000)

\* generateMeetingId(), given the bytes crypto.randomBytes(8) returned and
\* the value Date.now() returned
generateMeetingId(randomBytes, timestamp) ==
    ToHex(randomBytes) \o <<"-">> \o ToDecimal(timestamp)

isMeetingExpired_inclusive(meetingId, clock) ==
    IF meetingId = NotAString THEN TRUE
    ELSE LET parts == Split(meetingId, "-")
             timestamp == parseInt(parts[Len(parts)])
         IN IF isNaN(timestamp) THEN TRUE
            ELSE clock - timestamp.val >= twentyFourHours

isMeetingExpired_noExpiry(meetingId, clock) ==
    IF meetingId = NotAString THEN TRUE
    ELSE LET parts == Split(meetingId, "-")
             timestamp == parseInt(parts[Len(parts)])
         IN isNaN(timestamp)

\* isMeetingExpired(meetingId) evaluated when Date.now() = clock
isMeetingExpired(meetingId, clock) ==
    IF meetingId = NotAString
    THEN TRUE                                  \* catch: split threw
    ELSE LET parts == Split(meetingId, "-")
             timestamp == parseInt(parts[Len(parts)])
         IN IF isNaN(timestamp)
            THEN TRUE
            ELSE LET age == clock - timestamp.val
                 IN age > twentyFourHours

\* the number 999 returned by the catch block; an age in hours is the
\* quotient num / den
AgeSentinel == [nan |-> FALSE, num |-> 999, den |-> 1]

\* getMeetingAge(meetingId) evaluated when Date.now() = clock
getMeetingAge(meetingId, clock) ==
    IF meetingId = NotAString
    THEN AgeSentinel                           \* catch: split threw
    ELSE LET parts == Split(meetingId, "-")
             timestamp == parseInt(parts[Len(parts)])
         IN IF isNaN(timestamp)
            THEN [nan |-> TRUE, num |-> 0, den |-> 1]   \* (Date.now() - NaN) / 3600000
            ELSE [nan |-> FALSE, num |-> clock - timestamp.val, den |-> msPerHour]

-----------------------------------------------------------------------------
(* Inputs and the initial state *)

StartTime == 3 * twentyFourHours

Conns == 1..NumConns

\* what crypto.randomBytes(8) returns to the server, call after call
ServerBytes ==
    <<<<0, 1, 35, 69, 103, 137, 171, 255>>, <<222, 173, 190, 239, 0, 16, 32, 48>>,
      <<16, 50, 84, 118, 152, 186, 220, 254>>, <<1, 2, 3, 4, 5, 6, 7, 8>>,
      <<9, 10, 11, 12, 13, 14, 15, 16>>, <<17, 18, 19, 20, 21, 22, 23, 24>>>>

\* the hash part of the ids a client makes up
ClientBytes == <<202, 254, 186, 190, 18, 52, 86, 120>>

BoundaryId == generateMeetingId(ClientBytes, StartTime - twentyFourHours)
StaleId == generateMeetingId(ClientBytes, StartTime - twentyFourHours - 1)
MalformedId == <<"a", "b", "c">>
TamperedId == generateMeetingId(ClientBytes, StartTime) \o <<"x">>

\* well-formed room ids a client holds from the start (an earlier run of the
\* server handed them out)
ClientIds == {BoundaryId, StaleId}

UserIdOf(c) == <<"u", DecDigits[c + 1]>>
UsernameOf(c) == <<"n", DecDigits[c + 1]>>

IsOpen(c) == status[c] = "open"

NoRoom == <<>>               \* socket.data.roomId not set
NoValue == [type |-> "none"]
NoReply == [kind |-> "none", error |-> "", roomId |-> <<>>, peers |-> {}, value |-> NoValue]
OkReply(roomId, peers) ==
    [kind |-> "ok", error |-> "", roomId |-> roomId, peers |-> peers, value |-> NoValue]
ErrorReply(msg) ==
    [kind |-> "error", error |-> msg, roomId |-> <<>>, peers |-> {}, value |-> NoValue]
\* the replies of the media handlers: callback(value)
ValueReply(value) ==
    [kind |-> "ok", error |-> "", roomId |-> <<>>, peers |-> {}, value |-> value]

NoOut == [called |-> FALSE]

\* what a run of a handler did with its callback: the replies it handed to
\* it, the message of the error its catch block caught ("" when none), and
\* whether an error left the handler
NoThrow == ""
Silent == [replies |-> <<>>, thrown |-> NoThrow, escaped |-> FALSE]

\* callback(reply) as the last statement of the try block
callback(reply) == [replies |-> <<reply>>, thrown |-> NoThrow, escaped |-> FALSE]

catch_twice(generic, m) ==
    [replies |-> <<ErrorReply(generic), ErrorReply(generic)>>, thrown |-> m,
     escaped |-> FALSE]

\* catch (error) { callback({ error: generic }) } after the try block threw m
catch(generic, m) ==
    [replies |-> <<ErrorReply(generic)>>, thrown |-> m, escaped |-> FALSE]

\* the catch block when callback is undefined: callback(...) throws a
\* TypeError there, which leaves the handler
catchNoCallback(m) == [replies |-> <<>>, thrown |-> m, escaped |-> TRUE]

\* the fields of last that tell what the handler did with its callback
Outcome(out) ==
    [reply |-> IF out.replies = <<>> THEN NoReply ELSE out.replies[Len(out.replies)],
     acks |-> Len(out.replies), thrown |-> out.thrown, escaped |-> out.escaped]

NoEngine == [transports |-> <<>>, producers |-> <<>>, consumers |-> <<>>]

\* the message of an error the media worker answers a request with
EngineFailure == "mediasoup: request failed"

\* the process after start(): the worker it created is alive
Running == [worker |-> "alive", exited |-> FALSE, code |-> 0]

\* the media worker answers requests
WorkerAlive == proc.worker = "alive"

SigInit ==
    /\ status = [c \in Conns |-> "new"]
    /\ socketData = [c \in Conns |-> [roomId |-> NoRoom, userId |-> <<>>, username |-> <<>>]]
    /\ rooms = <<>>
    /\ routers = {}
    /\ subs = [c \in Conns |-> {}]
    /\ inbox = [c \in Conns |-> EmptyBag]
    /\ tasks = {}
    /\ known = ClientIds
    /\ hist = [joined |-> {}, left |-> {}, produced |-> {}]
    /\ engine = NoEngine
    /\ heap = 0
    /\ proc = Running
    /\ last = [seq |-> 0, req |-> 0, at |-> StartTime, op |-> "init", conn |-> 0,
               roomId |-> <<>>, reply |-> NoReply, acks |-> 0, thrown |-> NoThrow,
               escaped |-> FALSE]

-----------------------------------------------------------------------------
(* The JSON files of the data directory (storage/fileStorage.ts), the      *)
(* deletion queue (storage/deletionQueue.ts) and one browser's              *)
(* WebRTCManager.  User names and user ids are plain strings here; the      *)
(* ids randomUUID() hands out are numbered in the order they are drawn.     *)

MaxHttp == 4         \* HTTP requests served
MaxFaults == 2       \* file-system calls that fail
MaxRecordings == 2   \* recordings uploaded
MaxProducers == 2    \* producers announced to the browser

RecIds == 1..MaxRecordings
Usernames == {"alice", "bob"}
\* the userId fields of a request; "" is a request that carries none
Owners == {"u1", "u2"}
Absent == ""

\* the userIds handed out are numbered from 1
NoUser == [userId |-> 0, username |-> Absent]
NoRecording == [recordingId |-> 0, userId |-> Absent, title |-> Absent, filename |-> 0]

\* outcome of the file-system calls of one handler run: TRUE succeeds
FsOutcomes == [read1 : BOOLEAN, read2 : BOOLEAN, write : BOOLEAN, unlink : BOOLEAN]
FaultsIn(fs) ==
    (IF fs.read1 THEN 0 ELSE 1) + (IF fs.read2 THEN 0 ELSE 1)
      + (IF fs.write THEN 0 ELSE 1) + (IF fs.unlink THEN 0 ELSE 1)

\* readUsers(): the parsed file, [] when reading or parsing throws
readUsers(d, ok) == IF ok THEN d.users ELSE <<>>

\* writeUsers(users): an error is logged, the file stays as it was
writeUsers(d, users, ok) == IF ok THEN [d EXCEPT !.users = users] ELSE d

\* Array.prototype.find / findIndex: the least of the indices that match, or none
FirstIndex(matching) ==
    IF matching = {} THEN 0 ELSE CHOOSE i \in matching : \A j \in matching : i <= j

findUserByUsername(d, username, ok) ==
    LET users == readUsers(d, ok)
        i == FirstIndex({k \in 1..Len(users) : users[k].username = username})
    IN IF i = 0 THEN NoUser ELSE users[i]

addUser(d, user, rok, wok) == writeUsers(d, Append(readUsers(d, rok), user), wok)

\* readRecordings() and writeRecordings(recordings)
readRecordings(d, ok) == IF ok THEN d.metadata ELSE <<>>
writeRecordings(d, recordings, ok) == IF ok THEN [d EXCEPT !.metadata = recordings] ELSE d

addRecording(d, recording, rok, wok) ==
    writeRecordings(d, Append(readRecordings(d, rok), recording), wok)

findRecordingById(d, recordingId, ok) ==
    LET recordings == readRecordings(d, ok)
        i == FirstIndex({k \in 1..Len(recordings) :
                            recordings[k].recordingId = recordingId})
    IN IF i = 0 THEN NoRecording ELSE recordings[i]

\* updateRecording(recordingId, updates) with updates = {title}
updateRecording(d, recordingId, title, rok, wok) ==
    LET recordings == readRecordings(d, rok)
        index == FirstIndex({k \in 1..Len(recordings) :
                                recordings[k].recordingId = recordingId})
    IN IF index = 0
       THEN [disk |-> d, result |-> FALSE]
       ELSE [disk |-> writeRecordings(d, [recordings EXCEPT ![index].title = title], wok),
             result |-> TRUE]

\* deleteRecording(recordingId)
deleteRecording(d, recordingId, rok, wok) ==
    LET recordings == readRecordings(d, rok)
        Keep(r) == r.recordingId # recordingId
        filtered == SelectSeq(recordings, Keep)
    IN IF Len(filtered) = Len(recordings)
       THEN [disk |-> d, result |-> FALSE]
       ELSE [disk |-> writeRecordings(d, filtered, wok), result |-> TRUE]

\* private queue = [], processing = false, interval = null; passes are
\* the calls of processQueue suspended at their await, each with the tasks
\* of its snapshot it has not handed to deleteRecordingFiles yet
NoQueue == [queue |-> <<>>, processing |-> FALSE, interval |-> FALSE, passes |-> <<>>]

NoExchange ==
    [seq |-> 0, method |-> "", id |-> 0, userId |-> Absent, username |-> Absent,
     title |-> Absent, status |-> 0, body |-> ""]

NoTrail ==
    [enqueued |-> [r \in RecIds |-> 0], requeued |-> [r \in RecIds |-> 0],
     handled |-> [r \in RecIds |-> 0], returned |-> {},
     uuids |-> 0, uploads |-> 0, faults |-> 0, thrown |-> 0]

\* new WebRTCManager() after joinRoom and startProducing created the send
\* transport: recvTransport is null and no consumeProducer runs
NoClient ==
    [recvTransport |-> 0, announced |-> 0, listed |-> FALSE, runs |-> {},
     existing |-> <<>>, serverTransports |-> {1}, recvRequests |-> 0, consumed |-> {}]

AppInit ==
    /\ disk = [users |-> <<>>, metadata |-> <<>>, files |-> {}]
    /\ dq = NoQueue
    /\ http = NoExchange
    /\ trail = NoTrail
    /\ client = NoClient

-----------------------------------------------------------------------------
(* The meeting-id helpers on their own *)

SegAlphabet == {"7", "0", "x", " ", "+"}

RECURSIVE StringsUpTo(_)
StringsUpTo(n) ==
    IF n = 0 THEN {<<>>}
    ELSE LET shorter == StringsUpTo(n - 1)
         IN shorter \cup {Append(s, ch) : s \in shorter, ch \in SegAlphabet}

\* timestamps written into the ids tried
StampTimes ==
    {StartTime - twentyFourHours - 1, StartTime - twentyFourHours, StartTime - 1,
     StartTime, StartTime + 1, StartTime + twentyFourHours}

Segments ==
    StringsUpTo(MaxSegLen)
        \cup {ToDecimal(t) : t \in StampTimes}
        \cup {ToDecimal(t) \o <<"x">> : t \in StampTimes}

ExpInputs ==
    {NotAString, BoundaryId, StaleId, TamperedId} \cup Segments
        \cup {pre \o <<"-">> \o seg : pre \in {<<"a", "b">>, <<"a", "-", "b">>},
                                       seg \in Segments}

ExpInit ==
    /\ now = StartTime
    /\ expId \in {MalformedId, BoundaryId}
    /\ expGenAt = -1
    /\ expOut = NoOut
    /\ SigInit
    /\ AppInit

\* a caller is handed some string
ExpPick ==
    /\ \E s \in ExpInputs : expId' = s
    /\ expGenAt' = -1
    /\ expOut' = NoOut
    /\ UNCHANGED <<appVars, now, sigVars>>

\* generateMeetingId()
ExpGenerate ==
    /\ \E i \in 1..2 : expId' = generateMeetingId(ServerBytes[i], now)
    /\ expGenAt' = now
    /\ expOut' = NoOut
    /\ UNCHANGED <<appVars, now, sigVars>>

\* isMeetingExpired(expId) and getMeetingAge(expId)
ExpCall ==
    /\ expOut' = [called |-> TRUE, id |-> expId, at |-> now,
                  expired |-> isMeetingExpired(expId, now),
                  age |-> getMeetingAge(expId, now)]
    /\ UNCHANGED <<appVars, now, expId, expGenAt, sigVars>>

\* how many times the clock advanced (by a millisecond or by a day)
ClockSteps ==
    ((now - StartTime) \div twentyFourHours) + ((now - StartTime) % twentyFourHours)

\* the wall clock advances by a millisecond or by a day
ExpTick ==
    /\ ClockSteps < MaxTicks
    /\ \E d \in {1, twentyFourHours} : now' = now + d
    /\ UNCHANGED <<appVars, expId, expGenAt, expOut, sigVars>>

ExpNext == ExpPick \/ ExpGenerate \/ ExpCall \/ ExpTick

SpecExpiry == ExpInit /\ [][ExpNext]_vars

-----------------------------------------------------------------------------
(* mediasoup/room.ts: the registry *)

Put(f, k, v) == [x \in (DOMAIN f) \cup {k} |-> IF x = k THEN v ELSE f[x]]
Remove(f, k) == [x \in (DOMAIN f) \ {k} |-> f[x]]

\* const peer: Peer = { ... }: a new object, the next one of the heap, with
\* empty maps (transports and consumers: the keys; producers: key to kind)
NewPeer(peerId, userId, username) ==
    [obj |-> heap + 1, id |-> peerId, userId |-> userId, username |-> username,
     transports |-> {}, producers |-> <<>>, consumers |-> {}]

\* getRoom(roomId) is defined
HasRoom(rms, roomId) == roomId \in DOMAIN rms

\* the tail of createRoom, after worker.createRouter resolved with router:
\* rooms.set(roomId, room)
createRoomSet(rms, roomId, router, clock) ==
    Put(rms, roomId, [id |-> roomId, router |-> router, peers |-> <<>>,
                      createdAt |-> clock])

\* addPeer on an existing room: room.peers.set(peerId, peer)
addPeer(rms, roomId, peerId, userId, username) ==
    [rms EXCEPT ![roomId].peers = Put(@, peerId, NewPeer(peerId, userId, username))]

removePeer_deleteEmpty(rms, roomId, peerId) ==
    IF ~HasRoom(rms, roomId) THEN rms
    ELSE IF peerId \notin DOMAIN rms[roomId].peers THEN rms
    ELSE IF DOMAIN rms[roomId].peers = {peerId} THEN Remove(rms, roomId)
    ELSE [rms EXCEPT ![roomId].peers = Remove(@, peerId)]

\* removePeer: nothing when the room or the peer is absent
removePeer(rms, roomId, peerId) ==
    IF ~HasRoom(rms, roomId) THEN rms
    ELSE IF peerId \notin DOMAIN rms[roomId].peers THEN rms
    ELSE [rms EXCEPT ![roomId].peers = Remove(@, peerId)]

removePeerCloses_none(rms, roomId, peerId) == {}

\* removePeer: the transports it calls close() on,
\* peer.transports.forEach(transport => transport.close())
removePeerCloses(rms, roomId, peerId) ==
    IF ~HasRoom(rms, roomId) THEN {}
    ELSE IF peerId \notin DOMAIN rms[roomId].peers THEN {}
    ELSE rms[roomId].peers[peerId].transports

\* transport.close() on each transport of tids
CloseTransports(eng, tids) ==
    [eng EXCEPT !.transports =
        [id \in DOMAIN @ |-> IF id \in tids THEN [@[id] EXCEPT !.closes = @ + 1]
                                              ELSE @[id]]]

\* getPeer(roomId, peerId) is defined
HasPeer(rms, roomId, peerId) ==
    HasRoom(rms, roomId) /\ peerId \in DOMAIN rms[roomId].peers

UpdatePeer_everyPeer(rms, obj, transports, producers, consumers) ==
    [r \in DOMAIN rms |->
        [rms[r] EXCEPT !.peers =
            [p \in DOMAIN @ |->
                [@[p] EXCEPT !.transports = @ \cup transports,
                             !.producers = producers @@ @,
                             !.consumers = @ \cup consumers]]]]

\* the Peer object obj, wherever the registry still holds it, after the
\* entries given were set in its maps; an object no room holds is out of the
\* registry's sight
UpdatePeer(rms, obj, transports, producers, consumers) ==
    [r \in DOMAIN rms |->
        [rms[r] EXCEPT !.peers =
            [p \in DOMAIN @ |->
                IF @[p].obj = obj
                THEN [@[p] EXCEPT !.transports = @ \cup transports,
                                  !.producers = producers @@ @,
                                  !.consumers = @ \cup consumers]
                ELSE @[p]]]]

getOtherPeersProducers_all(rms, roomId, excludePeerId) ==
    IF ~HasRoom(rms, roomId) THEN {}
    ELSE {[producerId |-> id, peerId |-> p, userId |-> rms[roomId].peers[p].userId,
           username |-> rms[roomId].peers[p].username,
           kind |-> rms[roomId].peers[p].producers[id]] :
             <<p, id>> \in UNION {{<<q, i>> : i \in DOMAIN rms[roomId].peers[q].producers} :
                                    q \in DOMAIN rms[roomId].peers}}

\* getOtherPeersProducers(roomId, excludePeerId), as a set
getOtherPeersProducers(rms, roomId, excludePeerId) ==
    IF ~HasRoom(rms, roomId) THEN {}
    ELSE {[producerId |-> id, peerId |-> p, userId |-> rms[roomId].peers[p].userId,
           username |-> rms[roomId].peers[p].username,
           kind |-> rms[roomId].peers[p].producers[id]] :
             <<p, id>> \in UNION {{<<q, i>> : i \in DOMAIN rms[roomId].peers[q].producers} :
                                    q \in DOMAIN rms[roomId].peers \ {excludePeerId}}}

\* getRouterRtpCapabilities(roomId): room.router.rtpCapabilities, or undefined
\* (0) when there is no such room
getRouterRtpCapabilities(rms, roomId) ==
    IF ~HasRoom(rms, roomId) THEN 0 ELSE rms[roomId].router

\* getRoomPeers(roomId), as a set: the order of the array carries no meaning
getRoomPeers(rms, roomId) ==
    IF ~HasRoom(rms, roomId) THEN {}
    ELSE {[peerId |-> rms[roomId].peers[p].id,
           userId |-> rms[roomId].peers[p].userId,
           username |-> rms[roomId].peers[p].username] : p \in DOMAIN rms[roomId].peers}

-----------------------------------------------------------------------------
(* backend/src/server.ts: the socket handlers *)

\* socket.to(roomId): the open sockets in the socket.io room, the sender excepted
Recipients_withSender(sb, sender, roomId) ==
    {c \in Conns : IsOpen(c) /\ roomId \in sb[c]}

Recipients(sb, sender, roomId) ==
    {c \in Conns : c # sender /\ IsOpen(c) /\ roomId \in sb[c]}

\* .emit(event): one copy in the inbox of every recipient
Emit(inb, rcpts, ev) ==
    [c \in Conns |-> IF c \in rcpts THEN inb[c] (+) SetToBag({ev}) ELSE inb[c]]

NewPeerEvent(c, userId, username) ==
    [type |-> "newPeer", peerId |-> c, userId |-> userId, username |-> username]
PeerLeftEvent(c) ==
    [type |-> "peerLeft", peerId |-> c, userId |-> <<>>, username |-> <<>>]

Inflight(c) == {t \in tasks : t.conn = c}

\* a continuation of an await is queued: it runs before any further event
MicrotaskPending == \E t \in tasks : t.stage = "roomReady"

\* connection c can send a request now.  A client sends its next request
\* when the previous one was answered (WebRTCManager awaits every reply).
CanRequest(c) ==
    /\ ~proc.exited
    /\ IsOpen(c)
    /\ ~MicrotaskPending

\* a request arrives (it is request number last.seq + 1) and runs to its
\* reply or to its first await
Step(op, c, roomId, out) ==
    [seq |-> last.seq + 1, req |-> last.seq + 1, at |-> now, op |-> op, conn |-> c,
     roomId |-> roomId, reply |-> Outcome(out).reply, acks |-> Outcome(out).acks,
     thrown |-> Outcome(out).thrown, escaped |-> Outcome(out).escaped]

\* the suspended handler of request number req, which arrived at time at,
\* runs on
Resume(req, at, op, c, roomId, out) ==
    [seq |-> last.seq, req |-> req, at |-> at, op |-> op, conn |-> c,
     roomId |-> roomId, reply |-> Outcome(out).reply, acks |-> Outcome(out).acks,
     thrown |-> Outcome(out).thrown, escaped |-> Outcome(out).escaped]

\* a socket opens or closes
SocketEvent(op, c, roomId) ==
    [seq |-> last.seq, req |-> 0, at |-> now, op |-> op, conn |-> c,
     roomId |-> roomId, reply |-> NoReply, acks |-> 0, thrown |-> NoThrow,
     escaped |-> FALSE]

\* the peers of the reply: getRoomPeers(roomId).filter(p => p.peerId !== socket.id)
OtherPeers(rms, roomId, c) == {p \in getRoomPeers(rms, roomId) : p.peerId # c}

\* joinRoom from addPeer to the reply (server.ts 176-198)
JoinTail(c, roomId, userId, username, req, at) ==
    IF ~HasRoom(rooms, roomId)
    THEN \* addPeer throws, the catch replies
         /\ last' = [Resume(req, at, "joinRoom", c, roomId,
                            catch("Failed to join room", "Room ${roomId} not found"))
                       EXCEPT !.seq = IF req > last.seq THEN req ELSE last.seq]
         /\ UNCHANGED <<rooms, subs, socketData, inbox, hist, heap>>
    ELSE /\ rooms' = addPeer(rooms, roomId, c, userId, username)
         /\ heap' = heap + 1
         /\ subs' = [subs EXCEPT ![c] = IF IsOpen(c) THEN @ \cup {roomId} ELSE @]
         /\ socketData' = [socketData EXCEPT
                             ![c] = [roomId |-> roomId, userId |-> userId,
                                     username |-> username]]
         /\ inbox' = Emit(inbox, Recipients(subs', c, roomId),
                          NewPeerEvent(c, userId, username))
         /\ hist' = [hist EXCEPT !.joined = @ \cup {<<c, roomId>>}]
         /\ last' = [Resume(req, at, "joinRoom", c, roomId,
                            callback(OkReply(roomId, OtherPeers(rooms', roomId, c))))
                       EXCEPT !.seq = IF req > last.seq THEN req ELSE last.seq]

\* socket.on('createRoom') up to the await inside createRoom.  The 64 random
\* bits make the id one that no client has named and no room carries.
CreateRoomStart(c) ==
    /\ CanRequest(c)
    /\ Inflight(c) = {}
    /\ LET roomId == generateMeetingId(ServerBytes[last.seq + 1], now)
       IN   /\ roomId \notin known
            /\ ~HasRoom(rooms, roomId)
            /\ \A t \in tasks : t.roomId # roomId
            /\ tasks' = tasks \cup
                 {[req |-> last.seq + 1, at |-> now, conn |-> c, op |-> "createRoom",
                   roomId |-> roomId,
                   userId |-> <<>>, username |-> <<>>, stage |-> "createRouter",
                   peer |-> 0, router |-> 0, transportId |-> 0, kind |-> "",
                   producerId |-> 0]}
            /\ last' = Step("createRoom", c, roomId, Silent)
    /\ UNCHANGED <<appVars, now, expId, expGenAt, expOut, proc, status, socketData, rooms,
                   routers, subs, inbox, known, hist, engine, heap>>

\* socket.on('joinRoom') up to its reply or to the await inside createRoom
JoinRoomStart(c, roomId, userId, username) ==
    /\ CanRequest(c)
    /\ Inflight(c) = {}
    /\    IF roomId = <<>> \/ userId = <<>> \/ username = <<>>
            THEN /\ last' = Step("joinRoom", c, roomId,
                                 callback(ErrorReply("Missing required fields")))
                 /\ UNCHANGED <<rooms, subs, socketData, inbox, hist, tasks, heap>>
            ELSE IF isMeetingExpired(roomId, now)
            THEN /\ last' = Step("joinRoom", c, roomId,
                                 callback(ErrorReply("Meeting link has expired (24h limit)")))
                 /\ UNCHANGED <<rooms, subs, socketData, inbox, hist, tasks, heap>>
            ELSE IF HasRoom(rooms, roomId)
            THEN /\ JoinTail(c, roomId, userId, username, last.seq + 1, now)
                 /\ UNCHANGED tasks
            ELSE /\ tasks' = tasks \cup
                      {[req |-> last.seq + 1, at |-> now, conn |-> c, op |-> "joinRoom",
                        roomId |-> roomId,
                        userId |-> userId, username |-> username,
                        stage |-> "createRouter",
                        peer |-> 0, router |-> 0, transportId |-> 0, kind |-> "",
                   producerId |-> 0]}
                 /\ last' = Step("joinRoom", c, roomId, Silent)
                 /\ UNCHANGED <<rooms, subs, socketData, inbox, hist, heap>>
    /\ UNCHANGED <<appVars, now, expId, expGenAt, expOut, proc, status, routers, known, engine>>

\* worker.createRouter resolves and createRoom runs to its end: the room is
\* stored under roomId whatever the registry holds by then
RouterResolve(t) ==
    /\ t \in tasks
    /\ t.stage = "createRouter"
    /\ WorkerAlive
    /\ LET router == Cardinality(routers) + 1
       IN /\ routers' = routers \cup {[id |-> router, roomId |-> t.roomId]}
          /\ rooms' = createRoomSet(rooms, t.roomId, router, now)
    /\ tasks' = (tasks \ {t}) \cup {[t EXCEPT !.stage = "roomReady"]}
    /\ last' = Resume(t.req, t.at, "createRouter", t.conn, t.roomId, Silent)
    /\ UNCHANGED <<appVars, now, expId, expGenAt, expOut, proc, status, socketData, subs,
                   inbox, known, hist, engine, heap>>

\* worker.createRouter rejects: createRoom throws and the handler's catch replies
RouterReject(t) ==
    /\ t \in tasks
    /\ t.stage = "createRouter"
    /\ tasks' = tasks \ {t}
    /\ last' = Resume(t.req, t.at, t.op, t.conn, t.roomId,
                    catch(IF t.op = "createRoom" THEN "Failed to create room"
                          ELSE "Failed to join room", EngineFailure))
    /\ UNCHANGED <<appVars, now, expId, expGenAt, expOut, proc, status, socketData, rooms,
                   routers, subs, inbox, known, hist, engine, heap>>

\* socket.on('createRoom') after the await: callback({ roomId })
CreateRoomFinish(t) ==
    /\ t \in tasks
    /\ t.op = "createRoom"
    /\ t.stage = "roomReady"
    /\ tasks' = tasks \ {t}
    /\ known' = IF IsOpen(t.conn) THEN known \cup {t.roomId} ELSE known
    /\ last' = Resume(t.req, t.at, "createRoom", t.conn, t.roomId,
                    callback(OkReply(t.roomId, {})))
    /\ UNCHANGED <<appVars, now, expId, expGenAt, expOut, proc, status, socketData, rooms,
                   routers, subs, inbox, hist, engine, heap>>

\* socket.on('joinRoom') after the await
JoinRoomFinish(t) ==
    /\ t \in tasks
    /\ t.op = "joinRoom"
    /\ t.stage = "roomReady"
    /\ tasks' = tasks \ {t}
    /\ JoinTail(t.conn, t.roomId, t.userId, t.username, t.req, t.at)
    /\ UNCHANGED <<appVars, now, expId, expGenAt, expOut, proc, status, routers, known, engine>>

\* handleDisconnect() of connection c, run when the socket.io rooms are sb
handleDisconnect(c, sb) ==
    LET roomId == socketData[c].roomId
    IN IF roomId # NoRoom
       THEN /\ rooms' = removePeer(rooms, roomId, c)
            /\ engine' = CloseTransports(engine, removePeerCloses(rooms, roomId, c))
            /\ inbox' = Emit(inbox, Recipients(sb, c, roomId), PeerLeftEvent(c))
            /\ subs' = [sb EXCEPT ![c] = @ \ {roomId}]
       ELSE /\ subs' = sb
            /\ UNCHANGED <<rooms, inbox, engine>>

\* socket.on('leaveRoom')
LeaveRoom(c) ==
    /\ CanRequest(c)
    /\ handleDisconnect(c, subs)
    /\ hist' = [hist EXCEPT !.left = @ \cup {c}]
    /\ last' = Step("leaveRoom", c, socketData[c].roomId, Silent)
    /\ UNCHANGED <<appVars, now, expId, expGenAt, expOut, proc, status, socketData, routers,
                   tasks, known, heap>>

\* the socket closes: socket.io takes it out of its rooms, then
\* socket.on('disconnect') runs
Disconnect(c) ==
    /\ ~proc.exited
    /\ IsOpen(c)
    /\ ~MicrotaskPending
    /\ status' = [status EXCEPT ![c] = "closed"]
    /\ handleDisconnect(c, [subs EXCEPT ![c] = {}])
    /\ hist' = [hist EXCEPT !.left = @ \cup {c}]
    /\ last' = SocketEvent("disconnect", c, socketData[c].roomId)
    /\ UNCHANGED <<appVars, now, expId, expGenAt, expOut, proc, socketData, routers, tasks, known,
                   heap>>

\* a media handler suspended in a call of the media worker; room is the Room
\* object its facade function holds, the Peer object it holds is that of c
MediaTask(c, op, roomId, room, transportId, kind, producerId) ==
    [req |-> last.seq + 1, at |-> now, conn |-> c, op |-> op, roomId |-> roomId,
     userId |-> <<>>, username |-> <<>>, stage |-> "engine",
     peer |-> room.peers[c].obj, router |-> room.router,
     transportId |-> transportId, kind |-> kind, producerId |-> producerId]

NewId(objects) == Cardinality(DOMAIN objects) + 1

\* socket.on('getRouterRtpCapabilities')
GetRouterRtpCapabilities(c, roomId) ==
    /\ CanRequest(c)
    /\ Inflight(c) = {}
    /\ last' = Step("getRouterRtpCapabilities", c, roomId,
                    IF getRouterRtpCapabilities(rooms, roomId) = 0
                    THEN callback(ErrorReply("Room not found"))
                    ELSE callback(ValueReply(
                           [type |-> "rtpCapabilities",
                            router |-> getRouterRtpCapabilities(rooms, roomId)])))
    /\ UNCHANGED <<appVars, now, expId, expGenAt, expOut, proc, status, socketData, rooms, routers,
                   subs, inbox, tasks, known, hist, engine, heap>>

\* socket.on('getProducers')
GetProducers(c, roomId) ==
    /\ CanRequest(c)
    /\ Inflight(c) = {}
    /\ last' = Step("getProducers", c, roomId,
                    callback(ValueReply(
                        [type |-> "producers",
                         producers |-> getOtherPeersProducers(rooms, roomId, c)])))
    /\ UNCHANGED <<appVars, now, expId, expGenAt, expOut, proc, status, socketData, rooms, routers,
                   subs, inbox, tasks, known, hist, engine, heap>>

\* what createWebRtcTransport(roomId, peerId) throws before its await
createWebRtcTransportThrows(rms, roomId, peerId) ==
    IF ~HasRoom(rms, roomId) THEN "Room ${roomId} not found"
    ELSE IF ~HasPeer(rms, roomId, peerId)
    THEN "Peer ${peerId} not found in room ${roomId}"
    ELSE NoThrow

transportThrows_peerOnly(rms, roomId, peerId, transportId) ==
    IF ~HasPeer(rms, roomId, peerId) THEN "Peer ${peerId} not found"
    ELSE NoThrow

\* what connectTransport and produce throw before their await
transportThrows(rms, roomId, peerId, transportId) ==
    IF ~HasPeer(rms, roomId, peerId) THEN "Peer ${peerId} not found"
    ELSE IF transportId \notin rms[roomId].peers[peerId].transports
    THEN "Transport ${transportId} not found"
    ELSE NoThrow

canConsume_anyCapabilities(eng, router, producerId, capable) ==
    /\ producerId \in DOMAIN eng.producers
    /\ eng.transports[eng.producers[producerId].transport].router = router
    /\ eng.transports[eng.producers[producerId].transport].closes = 0

\* router.canConsume({ producerId, rtpCapabilities }): the router has the
\* producer (one of an open transport of this router) and the capabilities
\* the caller sent match it
canConsume(eng, router, producerId, capable) ==
    /\ producerId \in DOMAIN eng.producers
    /\ eng.transports[eng.producers[producerId].transport].router = router
    /\ eng.transports[eng.producers[producerId].transport].closes = 0
    /\ capable

\* what consume throws before its await
consumeThrows(rms, eng, roomId, peerId, transportId, producerId, capable) ==
    IF ~HasRoom(rms, roomId) THEN "Room ${roomId} not found"
    ELSE IF transportThrows(rms, roomId, peerId, transportId) # NoThrow
    THEN transportThrows(rms, roomId, peerId, transportId)
    ELSE IF ~canConsume(eng, rms[roomId].router, producerId, capable)
    THEN "Cannot consume"
    ELSE NoThrow

\* a media handler up to its first await: the facade function threw m, or
\* (m = NoThrow) it is suspended in the call of the media worker
MediaStart(c, op, roomId, generic, m, transportId, kind, producerId) ==
    /\ CanRequest(c)
    /\ Inflight(c) = {}
    /\ IF m # NoThrow
       THEN /\ last' = Step(op, c, roomId, catch(generic, m))
            /\ UNCHANGED tasks
       ELSE /\ tasks' = tasks \cup
                 {MediaTask(c, op, roomId, rooms[roomId], transportId, kind,
                            producerId)}
            /\ last' = Step(op, c, roomId, Silent)
    /\ UNCHANGED <<appVars, now, expId, expGenAt, expOut, proc, status, socketData, rooms, routers,
                   subs, inbox, known, hist, engine, heap>>

\* socket.on('createWebRtcTransport') up to the await of router.createWebRtcTransport
CreateWebRtcTransportStart(c, roomId) ==
    MediaStart(c, "createWebRtcTransport", roomId, "Failed to create transport",
               createWebRtcTransportThrows(rooms, roomId, c), 0, "", 0)

\* socket.on('connectTransport') up to the await of transport.connect
ConnectTransportStart(c, roomId, transportId) ==
    MediaStart(c, "connectTransport", roomId, "Failed to connect transport",
               transportThrows(rooms, roomId, c, transportId), transportId, "", 0)

\* socket.on('produce') up to the await of transport.produce
ProduceStart(c, roomId, transportId, kind) ==
    MediaStart(c, "produce", roomId, "Failed to produce",
               transportThrows(rooms, roomId, c, transportId), transportId, kind, 0)

\* socket.on('consume') up to the await of transport.consume
ConsumeStart(c, roomId, transportId, producerId, capable) ==
    MediaStart(c, "consume", roomId, "Failed to consume",
               consumeThrows(rooms, engine, roomId, c, transportId, producerId, capable),
               transportId, "", producerId)

NewProducerEvent(c, producerId, kind) ==
    [type |-> "newProducer", peerId |-> c, producerId |-> producerId, kind |-> kind]

\* router.createWebRtcTransport resolves; createWebRtcTransport stores the
\* transport in the Peer object it holds and the handler replies
TransportCreated(t) ==
    /\ t \in tasks
    /\ t.op = "createWebRtcTransport"
    /\ WorkerAlive
    /\ LET id == NewId(engine.transports)
       IN /\ engine' = [engine EXCEPT !.transports =
                           Put(@, id, [router |-> t.router, conn |-> t.conn,
                                       peer |-> t.peer, closes |-> 0])]
          /\ rooms' = UpdatePeer(rooms, t.peer, {id}, <<>>, {})
          /\ last' = Resume(t.req, t.at, t.op, t.conn, t.roomId,
                           callback(ValueReply([type |-> "transport", id |-> id])))
    /\ tasks' = tasks \ {t}
    /\ UNCHANGED <<appVars, now, expId, expGenAt, expOut, proc, status, socketData, routers, subs,
                   inbox, known, hist, heap>>

\* transport.connect resolves: callback({ success: true })
TransportConnected(t) ==
    /\ t \in tasks
    /\ t.op = "connectTransport"
    /\ WorkerAlive
    /\ tasks' = tasks \ {t}
    /\ last' = Resume(t.req, t.at, t.op, t.conn, t.roomId,
                     callback(ValueReply([type |-> "success"])))
    /\ UNCHANGED <<appVars, now, expId, expGenAt, expOut, proc, status, socketData, rooms, routers,
                   subs, inbox, known, hist, engine, heap>>

\* transport.produce resolves; produce stores the producer in the Peer object
\* it holds, the handler broadcasts newProducer and replies
Produced(t) ==
    /\ t \in tasks
    /\ t.op = "produce"
    /\ WorkerAlive
    /\ LET id == NewId(engine.producers)
       IN /\ engine' = [engine EXCEPT !.producers =
                           Put(@, id, [transport |-> t.transportId, kind |-> t.kind,
                                       conn |-> t.conn])]
          /\ rooms' = UpdatePeer(rooms, t.peer, {}, Put(<<>>, id, t.kind), {})
          /\ inbox' = Emit(inbox, Recipients(subs, t.conn, t.roomId),
                           NewProducerEvent(t.conn, id, t.kind))
          /\ hist' = [hist EXCEPT !.produced = @ \cup
                        {[producerId |-> id, conn |-> t.conn, roomId |-> t.roomId,
                          peer |-> t.peer, kind |-> t.kind]}]
          /\ last' = Resume(t.req, t.at, t.op, t.conn, t.roomId,
                           callback(ValueReply([type |-> "producer", producerId |-> id])))
    /\ tasks' = tasks \ {t}
    /\ UNCHANGED <<appVars, now, expId, expGenAt, expOut, proc, status, socketData, routers, subs,
                   known, heap>>

\* transport.consume resolves; consume stores the consumer in the Peer object
\* it holds and the handler replies
Consumed(t) ==
    /\ t \in tasks
    /\ t.op = "consume"
    /\ WorkerAlive
    /\ LET id == NewId(engine.consumers)
       IN /\ engine' = [engine EXCEPT !.consumers =
                           Put(@, id, [transport |-> t.transportId,
                                       producerId |-> t.producerId, conn |-> t.conn])]
          /\ rooms' = UpdatePeer(rooms, t.peer, {}, <<>>, {id})
          /\ last' = Resume(t.req, t.at, t.op, t.conn, t.roomId,
                           callback(ValueReply(
                               [type |-> "consumer", id |-> id,
                                producerId |-> t.producerId,
                                kind |-> engine.producers[t.producerId].kind])))
    /\ tasks' = tasks \ {t}
    /\ UNCHANGED <<appVars, now, expId, expGenAt, expOut, proc, status, socketData, routers, subs,
                   inbox, known, hist, heap>>

\* the message the catch block of a handler replies with
GenericError(op) ==
    CASE op = "createRoom" -> "Failed to create room"
      [] op = "joinRoom" -> "Failed to join room"
      [] op = "getRouterRtpCapabilities" -> "Failed to get RTP capabilities"
      [] op = "createWebRtcTransport" -> "Failed to create transport"
      [] op = "connectTransport" -> "Failed to connect transport"
      [] op = "produce" -> "Failed to produce"
      [] op = "consume" -> "Failed to consume"
      [] op = "getProducers" -> "Failed to get producers"

EngineReject_removesPeer(t) ==
    /\ t \in tasks
    /\ t.stage = "engine"
    /\ tasks' = tasks \ {t}
    /\ rooms' = removePeer(rooms, t.roomId, t.conn)
    /\ last' = Resume(t.req, t.at, t.op, t.conn, t.roomId,
                     catch(GenericError(t.op), EngineFailure))
    /\ UNCHANGED <<appVars, now, expId, expGenAt, expOut, proc, status, socketData, routers,
                   subs, inbox, known, hist, engine, heap>>

\* the call of the media worker rejects: the facade function throws and the
\* handler's catch replies
EngineReject(t) ==
    /\ t \in tasks
    /\ t.stage = "engine"
    /\ tasks' = tasks \ {t}
    /\ last' = Resume(t.req, t.at, t.op, t.conn, t.roomId,
                     catch(GenericError(t.op), EngineFailure))
    /\ UNCHANGED <<appVars, now, expId, expGenAt, expOut, proc, status, socketData, rooms, routers,
                   subs, inbox, known, hist, engine, heap>>

\* setTimeout(() => process.exit(1), 2000), armed at time at
exitDelay == 2000
ExitTimer(at) ==
    [req |-> 0, at |-> at, conn |-> 0, op |-> "exitTimer", roomId |-> NoRoom,
     userId |-> <<>>, username |-> <<>>, stage |-> "timer", peer |-> 0,
     router |-> 0, transportId |-> 0, kind |-> "", producerId |-> 0]

WorkerDied_noTimer ==
    /\ proc = Running
    /\ ~MicrotaskPending
    /\ proc' = [proc EXCEPT !.worker = "dead"]
    /\ last' = SocketEvent("workerDied", 0, NoRoom)
    /\ UNCHANGED <<appVars, now, expId, expGenAt, expOut, status, socketData, rooms, routers,
                   subs, inbox, tasks, known, hist, engine, heap>>

\* worker.on('died'): the media worker process died; the handler arms the
\* exit timer.  The calls of the worker that are pending can only reject.
WorkerDied ==
    /\ proc = Running
    /\ ~MicrotaskPending
    /\ proc' = [proc EXCEPT !.worker = "dead"]
    /\ tasks' = tasks \cup {ExitTimer(now)}
    /\ last' = SocketEvent("workerDied", 0, NoRoom)
    /\ UNCHANGED <<appVars, now, expId, expGenAt, expOut, status, socketData, rooms, routers,
                   subs, inbox, known, hist, engine, heap>>

\* the exit timer fires, exitDelay after it was armed or later:
\* process.exit(1) ends the process with every handler it had suspended
ExitTimerFires(t) ==
    /\ t \in tasks
    /\ t.op = "exitTimer"
    /\ ~proc.exited
    /\ ~MicrotaskPending
    /\ now' = IF now < t.at + exitDelay THEN t.at + exitDelay ELSE now
    /\ proc' = [proc EXCEPT !.exited = TRUE, !.code = 1]
    /\ tasks' = {}
    /\ last' = [SocketEvent("exit", 0, NoRoom) EXCEPT !.at = now']
    /\ UNCHANGED <<appVars, expId, expGenAt, expOut, status, socketData, rooms, routers,
                   subs, inbox, known, hist, engine, heap>>

\* the handlers declared as (data, callback)
DataHandlers ==
    {"joinRoom", "getRouterRtpCapabilities", "createWebRtcTransport",
     "connectTransport", "produce", "consume", "getProducers"}

\* the argument lists of a request that carries no payload: emit(event),
\* emit(event, ack) and emit(event, null, ack)
PayloadShapes == {"nothing", "ackOnly", "nullAndAck"}

\* a request of a (data, callback) handler that carries no payload.
\* nothing: data and callback are undefined, the destructuring throws and
\* so does callback(...) in the catch block.  ackOnly: socket.io hands the
\* acknowledgement function as data and callback is undefined; every field
\* read from data is undefined, no room is named undefined, and the handler
\* reaches a callback(...) in its try block and again in its catch block,
\* both throwing.  nullAndAck: the destructuring throws, the catch replies.
AbsentPayload(c, op, shape) ==
    /\ CanRequest(c)
    /\ Inflight(c) = {}
    /\ last' = Step(op, c, NoRoom,
                    CASE shape = "nothing" ->
                           catchNoCallback("Cannot destructure property of undefined")
                      [] shape = "ackOnly" ->
                           catchNoCallback("callback is not a function")
                      [] shape = "nullAndAck" ->
                           catch(GenericError(op), "Cannot destructure property of null"))
    /\ UNCHANGED <<appVars, now, expId, expGenAt, expOut, proc, status, socketData, rooms, routers,
                   subs, inbox, tasks, known, hist, engine, heap>>

\* a millisecond passes
Tick ==
    /\ ~MicrotaskPending
    /\ now' = now + 1
    /\ last' = Step("tick", 0, NoRoom, Silent)
    /\ UNCHANGED <<appVars, expId, expGenAt, expOut, proc, status, socketData, rooms, routers,
                   subs, inbox, tasks, known, hist, engine, heap>>

\* io.on('connection'): the next socket connects
Connect(c) ==
    /\ ~proc.exited
    /\ status[c] = "new"
    /\ \A d \in Conns : d < c => status[d] # "new"
    /\ ~MicrotaskPending
    /\ status' = [status EXCEPT ![c] = "open"]
    /\ last' = SocketEvent("connection", c, NoRoom)
    /\ UNCHANGED <<appVars, now, expId, expGenAt, expOut, proc, socketData, rooms, routers,
                   subs, inbox, tasks, known, hist, engine, heap>>

Init ==
    /\ now = StartTime
    /\ expId = <<>>
    /\ expGenAt = -1
    /\ expOut = NoOut
    /\ SigInit
    /\ AppInit

\* at most max requests and clock ticks
Within(max) == last.seq < max

Next ==
    \/ \E c \in Conns : Connect(c)
    \/ \E c \in Conns : Within(MaxSteps) /\ CreateRoomStart(c)
    \/ \E c \in Conns, roomId \in known :
         Within(MaxSteps) /\ JoinRoomStart(c, roomId, UserIdOf(c), UsernameOf(c))
    \/ \E t \in tasks : RouterResolve(t)
    \/ \E t \in tasks : RouterReject(t)
    \/ \E t \in tasks : CreateRoomFinish(t)
    \/ \E t \in tasks : JoinRoomFinish(t)
    \/ \E c \in Conns : Within(MaxSteps) /\ LeaveRoom(c)
    \/ \E c \in Conns : Disconnect(c)
    \/ Within(MaxSteps) /\ Tick

Spec == Init /\ [][Next]_vars

\* every action, in shorter runs
NextShort ==
    \/ \E c \in Conns : Connect(c)
    \/ \E c \in Conns : Within(MaxShort) /\ CreateRoomStart(c)
    \/ \E c \in Conns, roomId \in known :
         Within(MaxShort) /\ JoinRoomStart(c, roomId, UserIdOf(c), UsernameOf(c))
    \/ \E t \in tasks : RouterResolve(t)
    \/ \E t \in tasks : RouterReject(t)
    \/ \E t \in tasks : CreateRoomFinish(t)
    \/ \E t \in tasks : JoinRoomFinish(t)
    \/ \E c \in Conns : Within(MaxShort) /\ LeaveRoom(c)
    \/ \E c \in Conns : Disconnect(c)
    \/ Within(MaxShort) /\ Tick

SpecShort == Init /\ [][NextShort]_vars

\* joining and leaving the rooms whose ids the clients hold from the start
NextJoin ==
    \/ \E c \in Conns : Connect(c)
    \/ \E c \in Conns, roomId \in known :
         Within(MaxSteps) /\ JoinRoomStart(c, roomId, UserIdOf(c), UsernameOf(c))
    \/ \E t \in tasks : RouterResolve(t)
    \/ \E t \in tasks : RouterReject(t)
    \/ \E t \in tasks : JoinRoomFinish(t)
    \/ \E c \in Conns, roomId \in known :
         Within(MaxSteps) /\ GetRouterRtpCapabilities(c, roomId)
    \/ \E c \in Conns : Within(MaxSteps) /\ LeaveRoom(c)
    \/ \E c \in Conns : Disconnect(c)
    \/ Within(MaxSteps) /\ Tick

SpecJoin == Init /\ [][NextJoin]_vars

\* an id a client makes up around the current time
RecentId == generateMeetingId(ClientBytes, StartTime - 1)

\* the room ids named in the runs with two rooms
RoomIds == {BoundaryId, RecentId}

\* joining and leaving two rooms
NextRooms ==
    \/ \E c \in Conns : Connect(c)
    \/ \E c \in Conns, roomId \in RoomIds :
         Within(MaxSteps) /\ JoinRoomStart(c, roomId, UserIdOf(c), UsernameOf(c))
    \/ \E t \in tasks : RouterResolve(t)
    \/ \E t \in tasks : RouterReject(t)
    \/ \E t \in tasks : JoinRoomFinish(t)
    \/ \E c \in Conns, roomId \in RoomIds :
         Within(MaxSteps) /\ GetRouterRtpCapabilities(c, roomId)
    \/ \E c \in Conns : Within(MaxSteps) /\ LeaveRoom(c)
    \/ \E c \in Conns : Disconnect(c)

SpecRooms == Init /\ [][NextRooms]_vars

TransportIds == {0} \cup DOMAIN engine.transports
ProducerIds == {0} \cup DOMAIN engine.producers

\* transports and producers on one room
NextMedia ==
    \/ \E c \in Conns : Connect(c)
    \/ \E c \in Conns :
         Within(MaxSteps) /\ JoinRoomStart(c, BoundaryId, UserIdOf(c), UsernameOf(c))
    \/ \E t \in tasks : RouterResolve(t)
    \/ \E t \in tasks : JoinRoomFinish(t)
    \/ \E c \in Conns : Within(MaxSteps) /\ CreateWebRtcTransportStart(c, BoundaryId)
    \/ \E c \in Conns, id \in TransportIds :
         Within(MaxSteps) /\ ConnectTransportStart(c, BoundaryId, id)
    \/ \E c \in Conns, id \in TransportIds, kind \in {"audio", "video"} :
         Within(MaxSteps) /\ ProduceStart(c, BoundaryId, id, kind)
    \/ \E c \in Conns : Within(MaxSteps) /\ GetProducers(c, BoundaryId)
    \/ \E t \in tasks : TransportCreated(t)
    \/ \E t \in tasks : TransportConnected(t)
    \/ \E t \in tasks : Produced(t)
    \/ \E t \in tasks : EngineReject(t)
    \/ \E c \in Conns : Within(MaxSteps) /\ LeaveRoom(c)
    \/ \E c \in Conns : Disconnect(c)

SpecMedia == Init /\ [][NextMedia]_vars

\* joining one room, creating transports and producing
NextProduce ==
    \/ \E c \in Conns : Connect(c)
    \/ \E c \in Conns :
         Within(MaxProduce) /\ JoinRoomStart(c, BoundaryId, UserIdOf(c), UsernameOf(c))
    \/ \E t \in tasks : RouterResolve(t)
    \/ \E t \in tasks : JoinRoomFinish(t)
    \/ \E c \in Conns : Within(MaxProduce) /\ CreateWebRtcTransportStart(c, BoundaryId)
    \/ \E c \in Conns, id \in TransportIds, kind \in {"audio", "video"} :
         Within(MaxProduce) /\ ProduceStart(c, BoundaryId, id, kind)
    \/ \E t \in tasks : TransportCreated(t)
    \/ \E t \in tasks : Produced(t)

SpecProduce == Init /\ [][NextProduce]_vars

\* every handler that replies through a callback
NextHandlers ==
    \/ \E c \in Conns : Connect(c)
    \/ \E c \in Conns : Within(MaxMedia) /\ CreateRoomStart(c)
    \/ \E c \in Conns, roomId \in known :
         Within(MaxMedia) /\ JoinRoomStart(c, roomId, UserIdOf(c), UsernameOf(c))
    \/ \E t \in tasks : RouterResolve(t)
    \/ \E t \in tasks : RouterReject(t)
    \/ \E t \in tasks : CreateRoomFinish(t)
    \/ \E t \in tasks : JoinRoomFinish(t)
    \/ \E c \in Conns : Within(MaxMedia) /\ GetRouterRtpCapabilities(c, BoundaryId)
    \/ \E c \in Conns : Within(MaxMedia) /\ CreateWebRtcTransportStart(c, BoundaryId)
    \/ \E c \in Conns, id \in TransportIds :
         Within(MaxMedia) /\ ConnectTransportStart(c, BoundaryId, id)
    \/ \E c \in Conns, id \in TransportIds, kind \in {"audio", "video"} :
         Within(MaxMedia) /\ ProduceStart(c, BoundaryId, id, kind)
    \/ \E c \in Conns, id \in TransportIds, pid \in ProducerIds, capable \in BOOLEAN :
         Within(MaxMedia) /\ ConsumeStart(c, BoundaryId, id, pid, capable)
    \/ \E c \in Conns : Within(MaxMedia) /\ GetProducers(c, BoundaryId)
    \/ \E t \in tasks : TransportCreated(t)
    \/ \E t \in tasks : TransportConnected(t)
    \/ \E t \in tasks : Produced(t)
    \/ \E t \in tasks : Consumed(t)
    \/ \E t \in tasks : EngineReject(t)
    \/ \E c \in Conns, op \in DataHandlers, shape \in PayloadShapes :
         Within(MaxMedia) /\ AbsentPayload(c, op, shape)

SpecHandlers == Init /\ [][NextHandlers]_vars

\* one room up to the consumers
NextConsume ==
    \/ \E c \in Conns : Connect(c)
    \/ \E c \in Conns :
         Within(MaxMedia) /\ JoinRoomStart(c, BoundaryId, UserIdOf(c), UsernameOf(c))
    \/ \E t \in tasks : RouterResolve(t)
    \/ \E t \in tasks : JoinRoomFinish(t)
    \/ \E c \in Conns : Within(MaxMedia) /\ CreateWebRtcTransportStart(c, BoundaryId)
    \/ \E c \in Conns, id \in TransportIds :
         Within(MaxMedia) /\ ProduceStart(c, BoundaryId, id, "video")
    \/ \E c \in Conns, id \in TransportIds, pid \in ProducerIds, capable \in BOOLEAN :
         Within(MaxMedia) /\ ConsumeStart(c, BoundaryId, id, pid, capable)
    \/ \E t \in tasks : TransportCreated(t)
    \/ \E t \in tasks : Produced(t)
    \/ \E t \in tasks : Consumed(t)

SpecConsume == Init /\ [][NextConsume]_vars

\* transports on two rooms
NextTransport ==
    \/ \E c \in Conns : Connect(c)
    \/ \E c \in Conns, roomId \in RoomIds :
         Within(MaxSteps) /\ JoinRoomStart(c, roomId, UserIdOf(c), UsernameOf(c))
    \/ \E t \in tasks : RouterResolve(t)
    \/ \E t \in tasks : JoinRoomFinish(t)
    \/ \E c \in Conns, roomId \in RoomIds :
         Within(MaxSteps) /\ CreateWebRtcTransportStart(c, roomId)
    \/ \E t \in tasks : TransportCreated(t)
    \/ \E t \in tasks : EngineReject(t)
    \/ \E c \in Conns : Within(MaxSteps) /\ LeaveRoom(c)

SpecTransport == Init /\ [][NextTransport]_vars

\* the handlers that take a transport id, on two rooms
NextOwnership ==
    \/ \E c \in Conns : Connect(c)
    \/ \E c \in Conns, roomId \in RoomIds :
         Within(MaxMedia) /\ JoinRoomStart(c, roomId, UserIdOf(c), UsernameOf(c))
    \/ \E t \in tasks : RouterResolve(t)
    \/ \E t \in tasks : JoinRoomFinish(t)
    \/ \E c \in Conns, roomId \in RoomIds :
         Within(MaxMedia) /\ CreateWebRtcTransportStart(c, roomId)
    \/ \E c \in Conns, roomId \in RoomIds, id \in TransportIds :
         Within(MaxMedia) /\ ConnectTransportStart(c, roomId, id)
    \/ \E c \in Conns, roomId \in RoomIds, id \in TransportIds :
         Within(MaxMedia) /\ ProduceStart(c, roomId, id, "video")
    \/ \E c \in Conns, roomId \in RoomIds, id \in TransportIds, pid \in ProducerIds :
         Within(MaxMedia) /\ ConsumeStart(c, roomId, id, pid, TRUE)
    \/ \E t \in tasks : TransportCreated(t)
    \/ \E t \in tasks : TransportConnected(t)
    \/ \E t \in tasks : Produced(t)
    \/ \E t \in tasks : Consumed(t)

SpecOwnership == Init /\ [][NextOwnership]_vars

\* joining and creating transports while the media worker may die
NextWorker ==
    \/ \E c \in Conns : Connect(c)
    \/ \E c \in Conns :
         Within(MaxSteps) /\ JoinRoomStart(c, BoundaryId, UserIdOf(c), UsernameOf(c))
    \/ \E t \in tasks : RouterResolve(t)
    \/ \E t \in tasks : RouterReject(t)
    \/ \E t \in tasks : JoinRoomFinish(t)
    \/ \E c \in Conns : Within(MaxSteps) /\ CreateWebRtcTransportStart(c, BoundaryId)
    \/ \E t \in tasks : TransportCreated(t)
    \/ \E t \in tasks : EngineReject(t)
    \/ WorkerDied
    \/ \E t \in tasks : ExitTimerFires(t)

\* the event loop runs the continuation of a resolved await and fires a
\* timer that is due
SpecWorker ==
    /\ Init
    /\ [][NextWorker]_vars
    /\ WF_vars(\E t \in tasks : JoinRoomFinish(t))
    /\ WF_vars(\E t \in tasks : ExitTimerFires(t))

\* the call of the media worker that handler t is suspended in returns
EngineReturns(t) ==
    \/ RouterResolve(t)
    \/ TransportCreated(t)
    \/ TransportConnected(t)
    \/ Produced(t)
    \/ EngineReject(t)

\* the requests on one room, and requests sent as emit(event, ack)
NextReplies ==
    \/ NextMedia
    \/ \E c \in Conns, op \in DataHandlers :
         Within(MaxSteps) /\ AbsentPayload(c, op, "ackOnly")

\* every call of the media worker returns and the event loop runs the
\* continuation of a resolved await
SpecReplies ==
    /\ Init
    /\ [][NextReplies]_vars
    /\ WF_vars(\E t \in tasks : EngineReturns(t))
    /\ WF_vars(\E t \in tasks : JoinRoomFinish(t))

-----------------------------------------------------------------------------
(* The REST routes (routes/users.ts, routes/recordings.ts) and the          *)
(* deletion queue.  Every route handler is synchronous.  A pass of           *)
(* processQueue is suspended at each await; its continuation is a            *)
(* microtask, and the model lets any other callback run in between, which    *)
(* includes every order the event loop produces.                             *)

\* the response of the exchange numbered next
Served(method, id, userId, username, title, code, body) ==
    [seq |-> http.seq + 1, method |-> method, id |-> id, userId |-> userId,
     username |-> username, title |-> title, status |-> code, body |-> body]

\* httpServer.listen follows deletionQueue.start() in start()
Listening == dq.interval /\ http.seq < MaxHttp

\* the file-system calls allowed to fail in this run
Affordable(n) == trail.faults + n <= MaxFaults
Failures(oks) == Cardinality({i \in 1..Len(oks) : ~oks[i]})

\* router.post('/register')
Register(username, r1, r2, w) ==
    /\ Listening
    /\ IF username = Absent
       THEN /\ r1 /\ r2 /\ w
            /\ http' = Served("register", 0, Absent, username, Absent, 400,
                              "Username is required")
            /\ UNCHANGED <<disk, trail>>
       ELSE LET existingUser == findUserByUsername(disk, username, r1)
            IN IF existingUser # NoUser
               THEN /\ r2 /\ w
                    /\ Affordable(Failures(<<r1>>))
                    /\ http' = Served("register", existingUser.userId, Absent,
                                      existingUser.username, Absent, 200, "")
                    /\ trail' = [trail EXCEPT
                                   !.returned = @ \cup {<<username, existingUser.userId>>},
                                   !.faults = @ + Failures(<<r1>>)]
                    /\ UNCHANGED disk
               ELSE LET newUser == [userId |-> trail.uuids + 1, username |-> username]
                    IN /\ Affordable(Failures(<<r1, r2, w>>))
                       /\ disk' = addUser(disk, newUser, r2, w)
                       /\ http' = Served("register", newUser.userId, Absent, username,
                                         Absent, 200, "")
                       /\ trail' = [trail EXCEPT
                                      !.returned = @ \cup {<<username, newUser.userId>>},
                                      !.uuids = @ + 1,
                                      !.faults = @ + Failures(<<r1, r2, w>>)]
    /\ UNCHANGED <<dq, client, now, expId, expGenAt, expOut, sigVars>>

\* router.post('/') behind upload.single('file'): multer stored the file
\* under a fresh name, the handler records its metadata
Upload(userId, title, r, w) ==
    /\ Listening
    /\ Len(disk.metadata) < MaxRecordings
    /\ \A m \in 1..Len(disk.metadata) : disk.metadata[m].recordingId # trail.uploads + 1
    /\ trail.uploads < MaxRecordings
    /\ Affordable(Failures(<<r, w>>))
    /\ LET recordingId == trail.uploads + 1
           recording == [recordingId |-> recordingId, userId |-> userId,
                         title |-> title, filename |-> recordingId]
           stored == [disk EXCEPT !.files = @ \cup {recording.filename}]
       IN /\ disk' = addRecording(stored, recording, r, w)
          /\ http' = Served("upload", recordingId, userId, Absent, title, 200,
                            "Recording uploaded successfully")
    /\ trail' = [trail EXCEPT !.uploads = @ + 1, !.faults = @ + Failures(<<r, w>>)]
    /\ UNCHANGED <<dq, client, now, expId, expGenAt, expOut, sigVars>>

\* router.put('/:id')
PutRecording(id, userId, title, r1, r2, w) ==
    /\ Listening
    /\ LET recording == findRecordingById(disk, id, r1)
           updated == updateRecording(disk, id, title, r2, w)
       IN IF title = Absent
          THEN /\ r1 /\ r2 /\ w
               /\ http' = Served("put", id, userId, Absent, title, 400, "Title is required")
               /\ UNCHANGED <<disk, trail>>
          ELSE IF recording = NoRecording
          THEN /\ r2 /\ w
               /\ Affordable(Failures(<<r1>>))
               /\ http' = Served("put", id, userId, Absent, title, 404, "Recording not found")
               /\ trail' = [trail EXCEPT !.faults = @ + Failures(<<r1>>)]
               /\ UNCHANGED disk
          ELSE IF userId # Absent /\ recording.userId # userId
          THEN /\ r2 /\ w
               /\ http' = Served("put", id, userId, Absent, title, 403,
                                 "Not authorized to update this recording")
               /\ UNCHANGED <<disk, trail>>
          ELSE /\ (~r2 => w)
               /\ Affordable(Failures(<<r2, w>>))
               /\ disk' = updated.disk
               /\ http' = IF updated.result
                          THEN Served("put", id, userId, Absent, title, 200,
                                      "Recording updated")
                          ELSE Served("put", id, userId, Absent, title, 500,
                                      "Failed to update recording")
               /\ trail' = [trail EXCEPT !.faults = @ + Failures(<<r2, w>>)]
    /\ UNCHANGED <<dq, client, now, expId, expGenAt, expOut, sigVars>>

\* DeletionQueue.enqueue(recordingId)
enqueue(q, recordingId, at) ==
    [q EXCEPT !.queue = Append(@, [recordingId |-> recordingId, scheduledAt |-> at])]

\* router.delete('/:id')
DeleteRecording(id, userId, r1) ==
    /\ Listening
    /\ LET recording == findRecordingById(disk, id, r1)
       IN IF recording = NoRecording
          THEN /\ Affordable(Failures(<<r1>>))
               /\ http' = Served("delete", id, userId, Absent, Absent, 404,
                                 "Recording not found")
               /\ trail' = [trail EXCEPT !.faults = @ + Failures(<<r1>>)]
               /\ UNCHANGED dq
          ELSE IF userId # Absent /\ recording.userId # userId
          THEN /\ http' = Served("delete", id, userId, Absent, Absent, 403,
                                 "Not authorized to delete this recording")
               /\ UNCHANGED <<dq, trail>>
          ELSE /\ dq' = enqueue(dq, id, now)
               /\ http' = Served("delete", id, userId, Absent, Absent, 200,
                                 "Deleted successfully!")
               /\ trail' = [trail EXCEPT !.enqueued[id] = @ + 1]
    /\ UNCHANGED <<disk, client, now, expId, expGenAt, expOut, sigVars>>

\* every failing call of fs is one that deleteRecordingFiles(recordingId) reaches
Reached(d, recordingId, fs) ==
    LET recording == findRecordingById(d, recordingId, fs.read1)
    IN /\ recording = NoRecording => fs.unlink /\ fs.read2 /\ fs.write
       /\ recording.filename \notin d.files => fs.unlink
       /\ ~fs.unlink => fs.read2 /\ fs.write
       /\ ~fs.read2 => fs.write

deleteRecordingFiles_noRetry(s, recordingId, fs, at) ==
    LET recording == findRecordingById(s.disk, recordingId, fs.read1)
        counted == [s.trail EXCEPT !.handled[recordingId] = @ + 1,
                                   !.faults = @ + FaultsIn(fs)]
    IN IF recording = NoRecording
       THEN [s EXCEPT !.trail = counted]
       ELSE IF recording.filename \in s.disk.files /\ ~fs.unlink
       THEN [s EXCEPT !.trail = [counted EXCEPT !.thrown = @ + 1]]
       ELSE LET unlinked == [s.disk EXCEPT !.files = @ \ {recording.filename}]
            IN [s EXCEPT !.disk = deleteRecording(unlinked, recordingId,
                                                  fs.read2, fs.write).disk,
                         !.trail = counted]

\* DeletionQueue.deleteRecordingFiles(recordingId) on s = [disk, dq, trail]
deleteRecordingFiles(s, recordingId, fs, at) ==
    LET recording == findRecordingById(s.disk, recordingId, fs.read1)
        counted == [s.trail EXCEPT !.handled[recordingId] = @ + 1,
                                   !.faults = @ + FaultsIn(fs)]
    IN IF recording = NoRecording
       THEN [s EXCEPT !.trail = counted]
       ELSE IF recording.filename \in s.disk.files /\ ~fs.unlink
       THEN [s EXCEPT !.dq = enqueue(@, recordingId, at),
                      !.trail = [counted EXCEPT !.requeued[recordingId] = @ + 1,
                                                !.thrown = @ + 1]]
       ELSE LET unlinked == [s.disk EXCEPT !.files = @ \ {recording.filename}]
            IN [s EXCEPT !.disk = deleteRecording(unlinked, recordingId,
                                                  fs.read2, fs.write).disk,
                         !.trail = counted]

processQueue_noGuard(s, fs, at) ==
    IF s.dq.queue = <<>>
    THEN s
    ELSE LET tasksToProcess == s.dq.queue
             begun == [s EXCEPT !.dq.processing = TRUE, !.dq.queue = <<>>]
             first == deleteRecordingFiles(begun, tasksToProcess[1].recordingId, fs, at)
         IN [first EXCEPT !.dq.passes = Append(@, Tail(tasksToProcess))]

\* DeletionQueue.processQueue() up to its first await
processQueue(s, fs, at) ==
    IF s.dq.processing \/ s.dq.queue = <<>>
    THEN s
    ELSE LET tasksToProcess == s.dq.queue
             begun == [s EXCEPT !.dq.processing = TRUE, !.dq.queue = <<>>]
             first == deleteRecordingFiles(begun, tasksToProcess[1].recordingId, fs, at)
         IN [first EXCEPT !.dq.passes = Append(@, Tail(tasksToProcess))]

\* the calls of processQueue that do nothing draw no file-system outcome
Quiet(fs) == fs.read1 /\ fs.read2 /\ fs.write /\ fs.unlink

Draws(s, fs) ==
    IF s.dq.processing \/ s.dq.queue = <<>>
    THEN Quiet(fs)
    ELSE /\ Reached(s.disk, s.dq.queue[1].recordingId, fs)
         /\ Affordable(FaultsIn(fs))

Bundle == [disk |-> disk, dq |-> dq, trail |-> trail]

\* DeletionQueue.start(), called by start() of server.ts
DqStart(fs) ==
    /\ ~dq.interval
    /\ Draws(Bundle, fs)
    /\ LET s == processQueue(Bundle, fs, now)
       IN /\ disk' = s.disk
          /\ trail' = s.trail
          /\ dq' = [s.dq EXCEPT !.interval = TRUE]
    /\ UNCHANGED <<http, client, now, expId, expGenAt, expOut, sigVars>>

\* the callback of setInterval(..., 10000)
IntervalFires(fs) ==
    /\ dq.interval
    /\ Draws(Bundle, fs)
    /\ LET s == processQueue(Bundle, fs, now)
       IN /\ disk' = s.disk
          /\ trail' = s.trail
          /\ dq' = s.dq
    /\ UNCHANGED <<http, client, now, expId, expGenAt, expOut, sigVars>>

\* remove the i-th element of a sequence
Without(seq, i) == SubSeq(seq, 1, i - 1) \o SubSeq(seq, i + 1, Len(seq))

\* the i-th suspended pass resumes after its await: the next task of its
\* snapshot, or the end of the loop and this.processing = false
PassResumes(i, fs) ==
    /\ i \in 1..Len(dq.passes)
    /\ LET rest == dq.passes[i]
       IN IF rest = <<>>
          THEN /\ Quiet(fs)
               /\ dq' = [dq EXCEPT !.processing = FALSE, !.passes = Without(@, i)]
               /\ UNCHANGED <<disk, trail>>
          ELSE /\ Reached(disk, rest[1].recordingId, fs)
               /\ Affordable(FaultsIn(fs))
               /\ LET s == deleteRecordingFiles(Bundle, rest[1].recordingId, fs, now)
                  IN /\ disk' = s.disk
                     /\ trail' = s.trail
                     /\ dq' = [s.dq EXCEPT !.passes[i] = Tail(rest)]
    /\ UNCHANGED <<http, client, now, expId, expGenAt, expOut, sigVars>>

NextRecordings ==
    \/ \E fs \in FsOutcomes : DqStart(fs)
    \/ \E fs \in FsOutcomes : IntervalFires(fs)
    \/ \E i \in 1..MaxHttp, fs \in FsOutcomes : PassResumes(i, fs)
    \/ \E u \in Owners, r, w \in BOOLEAN : Upload(u, "old", r, w)
    \/ \E id \in RecIds, u \in Owners \cup {Absent}, t \in {"new", Absent},
          r1, r2, w \in BOOLEAN : PutRecording(id, u, t, r1, r2, w)
    \/ \E id \in RecIds, u \in Owners \cup {Absent}, r1 \in BOOLEAN :
          DeleteRecording(id, u, r1)

SpecRecordings == Init /\ [][NextRecordings]_vars

NextUsers ==
    \/ \E fs \in FsOutcomes : DqStart(fs)
    \/ \E n \in Usernames \cup {Absent}, r1, r2, w \in BOOLEAN : Register(n, r1, r2, w)

SpecUsers == Init /\ [][NextUsers]_vars

\* the processor is started, its timer keeps firing and the event loop
\* resumes a suspended pass; at most MaxFaults file-system calls fail
SpecDeletion ==
    /\ Init
    /\ [][NextRecordings]_vars
    /\ WF_vars(\E fs \in FsOutcomes : DqStart(fs))
    /\ WF_vars(\E fs \in FsOutcomes : IntervalFires(fs))
    /\ WF_vars(\E i \in 1..MaxHttp, fs \in FsOutcomes : PassResumes(i, fs))

-----------------------------------------------------------------------------
(* One browser's WebRTCManager (frontend), from the moment its send          *)
(* transport exists: the newProducer listener, the loop of                   *)
(* getExistingProducers and the calls of consumeProducer they start.         *)

\* the producers announced by newProducer events are numbered 1, 2, ...;
\* those listed in the reply to getProducers follow them
ExistingLists ==
    {<<>>, <<MaxProducers + 1>>, <<MaxProducers + 1, MaxProducers + 2>>}

\* consumeProducer(producerId, peerId) up to its first await: without a
\* receive transport it asks the server for one, else it asks to consume
consumeProducer(cl, producerId, inLoop) ==
    IF cl.recvTransport = 0
    THEN [cl EXCEPT !.runs = @ \cup {[producer |-> producerId, stage |-> "creating",
                                      loop |-> inLoop]},
                    !.recvRequests = @ + 1]
    ELSE [cl EXCEPT !.runs = @ \cup {[producer |-> producerId, stage |-> "consuming",
                                      loop |-> inLoop]}]

\* a call of consumeProducer returns; the loop of getExistingProducers,
\* when it awaited this call, goes on with the next producer of the list
Returned(cl, run) ==
    LET done == [cl EXCEPT !.runs = @ \ {run}]
    IN IF run.loop /\ done.existing # <<>>
       THEN consumeProducer([done EXCEPT !.existing = Tail(@)], Head(done.existing), TRUE)
       ELSE done

\* socket.on('newProducer')
NewProducer ==
    /\ client.announced < MaxProducers
    /\ client' = consumeProducer([client EXCEPT !.announced = @ + 1],
                                 client.announced + 1, FALSE)
    /\ UNCHANGED <<disk, dq, http, trail, now, expId, expGenAt, expOut, sigVars>>

\* the reply to getProducers arrives: getExistingProducers starts its loop
ExistingProducers(list) ==
    /\ ~client.listed
    /\ LET asked == [client EXCEPT !.listed = TRUE]
       IN client' = IF list = <<>>
                    THEN asked
                    ELSE consumeProducer([asked EXCEPT !.existing = Tail(list)],
                                         Head(list), TRUE)
    /\ UNCHANGED <<disk, dq, http, trail, now, expId, expGenAt, expOut, sigVars>>

\* the reply to a createWebRtcTransport of createRecvTransport arrives: the
\* server created a transport for the peer (or answered an error); the
\* callback stores it in this.recvTransport and consumeProducer goes on
RecvTransportCreated(run, ok) ==
    /\ run \in client.runs
    /\ run.stage = "creating"
    /\ client' =
         IF ok
         THEN LET id == Cardinality(client.serverTransports) + 1
              IN [client EXCEPT !.serverTransports = @ \cup {id},
                                !.recvTransport = id,
                                !.runs = (@ \ {run}) \cup {[run EXCEPT !.stage = "consuming"]}]
         ELSE Returned(client, run)
    /\ UNCHANGED <<disk, dq, http, trail, now, expId, expGenAt, expOut, sigVars>>

\* the reply to consume arrives and consumeProducer runs to its end
ConsumeReplied(run, ok) ==
    /\ run \in client.runs
    /\ run.stage = "consuming"
    /\ client' = Returned([client EXCEPT !.consumed =
                               IF ok THEN @ \cup {run.producer} ELSE @], run)
    /\ UNCHANGED <<disk, dq, http, trail, now, expId, expGenAt, expOut, sigVars>>

ClientRuns ==
    [producer : 1..(MaxProducers + 2), stage : {"creating", "consuming"}, loop : BOOLEAN]

NextClient ==
    \/ NewProducer
    \/ \E list \in ExistingLists : ExistingProducers(list)
    \/ \E run \in ClientRuns, ok \in BOOLEAN : RecvTransportCreated(run, ok)
    \/ \E run \in ClientRuns, ok \in BOOLEAN : ConsumeReplied(run, ok)

SpecClient == Init /\ [][NextClient]_vars

-----------------------------------------------------------------------------
(* What the claims speak of, stated without the helpers of expiry.ts *)

IsDecDigit(ch) == \E i \in 1..10 : DecDigits[i] = ch
IsLowerHex(ch) == \E i \in 1..16 : HexDigits[i] = ch

\* the text after the last hyphen (the whole text when it has none)
TrailingSegment(id) ==
    LET hy == {i \in 1..Len(id) : id[i] = "-"}
    IN IF hy = {} THEN id
       ELSE SubSeq(id, (CHOOSE i \in hy : \A j \in hy : j <= i) + 1, Len(id))

\* the segment is a decimal integer: one digit or more and nothing else
IsDecimalInteger(seg) == Len(seg) > 0 /\ \A i \in 1..Len(seg) : IsDecDigit(seg[i])

RECURSIVE DecimalValue(_)
DecimalValue(seg) ==
    IF seg = <<>> THEN 0
    ELSE 10 * DecimalValue(SubSeq(seg, 1, Len(seg) - 1))
         + (CHOOSE d \in 0..9 : DecDigits[d + 1] = seg[Len(seg)])

\* the id carries an integer timestamp that lies more than 24 hours before clock
OlderThan24h(id, clock) ==
    /\ id # NotAString
    /\ IsDecimalInteger(TrailingSegment(id))
    /\ clock - DecimalValue(TrailingSegment(id)) > twentyFourHours

\* the step just taken is the arrival of a joinRoom request
JoinArrived == last.op = "joinRoom" /\ last.req = last.seq /\ last.at = now

PeersOf(rms, roomId) == IF HasRoom(rms, roomId) THEN DOMAIN rms[roomId].peers ELSE {}

-----------------------------------------------------------------------------
(* The claims *)

\* C1: when leaveRoom of a connection is followed at once by its disconnect,
\* the second run of handleDisconnect delivers no further peerLeft and
\* changes nothing in the registry.
C1_SecondRunIsNoOp ==
    [][(last.op = "leaveRoom" /\ last'.op = "disconnect" /\ last'.conn = last.conn)
         => (inbox' = inbox /\ rooms' = rooms)]_vars

\* C2: once a connection is closed and none of its handlers is in flight, no
\* room's peer map holds a peer with its id.
C2_NoPeerAfterDisconnect ==
    \A c \in Conns :
        (status[c] = "closed" /\ Inflight(c) = {})
            => \A r \in DOMAIN rooms : c \notin DOMAIN rooms[r].peers

\* C3: the media worker creates at most one router for a room id.
C3_RouterCreatedOnce ==
    \A r1, r2 \in routers : r1.roomId = r2.roomId => r1 = r2

\* C4: while no connection has left, the roster of a room is exactly the
\* connections that received a successful joinRoom reply for its id.
C4_RosterCountsJoins ==
    hist.left = {} =>
        \A r \in DOMAIN rooms :
            LET joiners == {c \in Conns : <<c, r>> \in hist.joined}
            IN /\ Cardinality(getRoomPeers(rooms, r)) = Cardinality(joiners)
               /\ {p.peerId : p \in getRoomPeers(rooms, r)} = joiners

\* C5: a successful joinRoom reply lists exactly the other peers of the room
\* with their userId and username, every other open connection subscribed to
\* the room gets one newPeer for the joiner, and nobody else gets anything.
C5_JoinReplyAndBroadcast ==
    [][(last'.op = "joinRoom" /\ last'.reply.kind = "ok") =>
         LET c == last'.conn
             r == last'.roomId
             ev == [type |-> "newPeer", peerId |-> c,
                    userId |-> socketData'[c].userId,
                    username |-> socketData'[c].username]
         IN /\ last'.reply.peers =
                 {[peerId |-> p, userId |-> rooms'[r].peers[p].userId,
                   username |-> rooms'[r].peers[p].username] :
                      p \in PeersOf(rooms', r) \ {c}}
            /\ c \in PeersOf(rooms', r)
            /\ \A d \in Conns :
                 inbox'[d] = IF d # c /\ status[d] = "open" /\ r \in subs[d]
                             THEN inbox[d] (+) SetToBag({ev})
                             ELSE inbox[d]]_vars

C5_Witness ==
    /\ last.op = "joinRoom"
    /\ last.reply.kind = "ok"
    /\ last.reply.peers # {}
    /\ \E d \in Conns \ {last.conn} :
         \E ev \in BagToSet(inbox[d]) : ev.type = "newPeer" /\ ev.peerId = last.conn

\* C6: a joinRoom request naming an id older than 24 hours is answered with
\* the expiry error and changes neither the registry nor the subscriptions
\* nor any inbox, and starts nothing.
C6_ExpiredJoinRejected ==
    [][(JoinArrived' /\ OlderThan24h(last'.roomId, now)) =>
         /\ last'.reply = ErrorReply("Meeting link has expired (24h limit)")
         /\ UNCHANGED <<rooms, routers, subs, inbox, tasks, socketData>>]_vars

C6_Witness ==
    /\ JoinArrived
    /\ OlderThan24h(last.roomId, now)
    /\ last.reply.kind = "error"
    /\ PeersOf(rooms, last.roomId) # {}

\* C7: for an id that ends in an integer timestamp t, isMeetingExpired is
\* true exactly when now - t > 24h; the timestamp of a generated id is its
\* time of generation.
C7_ExpiredExactlyAfter24h ==
    (expOut.called /\ expOut.id # NotAString
        /\ IsDecimalInteger(TrailingSegment(expOut.id))) =>
        LET t == DecimalValue(TrailingSegment(expOut.id))
        IN /\ expOut.expired <=> (expOut.at - t > twentyFourHours)
           /\ expGenAt >= 0 => t = expGenAt

C7_Witness ==
    /\ expOut.called
    /\ expGenAt >= 0
    /\ expOut.at = expGenAt + twentyFourHours + 1
    /\ expOut.expired

\* C8: for a string whose trailing segment is not a decimal integer,
\* isMeetingExpired is true at every clock value.
C8_MalformedAlwaysExpired ==
    (expOut.called /\ expOut.id # NotAString
        /\ ~IsDecimalInteger(TrailingSegment(expOut.id))) => expOut.expired

\* C9: for a string whose trailing segment starts with no number at all,
\* getMeetingAge returns the sentinel 999.
C9_AgeSentinelOnParseFailure ==
    (expOut.called /\ expOut.id # NotAString
        /\ isNaN(parseInt(TrailingSegment(expOut.id)))) => expOut.age = AgeSentinel

\* C10: a successful createRoom reply carries 16 lowercase hex characters, a
\* hyphen and the decimal time in milliseconds at which the request arrived;
\* the registry then holds a room of that id with no peers, and the id is not
\* expired.
C10_CreateRoomReply ==
    (last.op = "createRoom" /\ last.reply.kind = "ok") =>
        LET id == last.reply.roomId
            stamp == SubSeq(id, 18, Len(id))
        IN /\ Len(id) > 17
           /\ \A i \in 1..16 : IsLowerHex(id[i])
           /\ id[17] = "-"
           /\ IsDecimalInteger(stamp)
           /\ stamp = ToDecimal(DecimalValue(stamp))
           /\ DecimalValue(stamp) = last.at
           /\ HasRoom(rooms, id)
           /\ rooms[id].peers = <<>>
           /\ now - DecimalValue(stamp) <= twentyFourHours

C10_Witness ==
    /\ last.op = "createRoom"
    /\ last.reply.kind = "ok"
    /\ now > last.at
    /\ HasRoom(rooms, last.reply.roomId)

\* the entries of getOtherPeersProducers(roomId, asker) for producer id
EntriesFor(rms, roomId, asker, id) ==
    {e \in getOtherPeersProducers(rms, roomId, asker) : e.producerId = id}

\* C11: a joinRoom that reaches addPeer for a connection already in the
\* room's peer map is answered with an error and leaves the registry, and so
\* the existing peer entry with its transports, producers and consumers, as
\* it was.
C11_DuplicatePeerRejected ==
    [][(last'.op = "joinRoom" /\ last'.acks > 0
          /\ HasPeer(rooms, last'.roomId, last'.conn))
         => (last'.reply.kind = "error" /\ rooms' = rooms)]_vars

\* C12: a connection id is in the peer map of at most one room.
C12_PeerInOneRoom ==
    \A c \in Conns : Cardinality({r \in DOMAIN rooms : c \in DOMAIN rooms[r].peers}) <= 1

\* C13: for every room of the registry and every peer p,
\* getOtherPeersProducers(roomId, p) has no entry of p, and each of its
\* entries is a producer held by a peer that is in the room's peer map.
C13_OtherPeersProducersOnly ==
    \A r \in DOMAIN rooms, p \in Conns :
        \A e \in getOtherPeersProducers(rooms, r, p) :
            /\ e.peerId # p
            /\ e.peerId \in PeersOf(rooms, r)
            /\ e.producerId \in DOMAIN rooms[r].peers[e.peerId].producers

C13_Witness ==
    \E r \in DOMAIN rooms, p \in Conns :
        /\ HasPeer(rooms, r, p)
        /\ DOMAIN rooms[r].peers[p].producers # {}
        /\ getOtherPeersProducers(rooms, r, p) = {}
        /\ \E q \in Conns \ {p} : getOtherPeersProducers(rooms, r, q) # {}

\* C14: once produce of A replied {producerId} and as long as A has not left,
\* what getProducers returns to any other peer of the room has exactly one
\* entry for that producerId, with peerId A and the kind of the request; at
\* the reply every other open member of the room gets one newProducer and A
\* gets none.
C14_ProducerListedOnce ==
    /\ [](\A h \in hist.produced :
            (h.conn \notin hist.left /\ HasPeer(rooms, h.roomId, h.conn)) =>
                \A b \in PeersOf(rooms, h.roomId) \ {h.conn} :
                    EntriesFor(rooms, h.roomId, b, h.producerId) =
                        {[producerId |-> h.producerId, peerId |-> h.conn,
                          userId |-> rooms[h.roomId].peers[h.conn].userId,
                          username |-> rooms[h.roomId].peers[h.conn].username,
                          kind |-> h.kind]})
    /\ [][(last'.op = "produce" /\ last'.reply.kind = "ok") =>
            \A d \in Conns :
                inbox'[d] =
                    IF d # last'.conn /\ IsOpen(d) /\ d \in PeersOf(rooms, last'.roomId)
                    THEN inbox[d] (+) SetToBag(
                           {[type |-> "newProducer", peerId |-> last'.conn,
                             producerId |-> last'.reply.value.producerId,
                             kind |-> engine'.producers[last'.reply.value.producerId].kind]})
                    ELSE inbox[d]]_vars

\* C15: when a connection disconnects, every other open member of each room
\* that holds its peer gets a peerLeft for it and the peer is taken out of
\* that room; afterwards no room lists a producer of the closed connection.
C15_PeerLeftReachesMembers ==
    /\ [][(last'.op = "disconnect") =>
            \A r \in DOMAIN rooms :
                last'.conn \in PeersOf(rooms, r) =>
                    /\ last'.conn \notin PeersOf(rooms', r)
                    /\ \A b \in PeersOf(rooms, r) \ {last'.conn} :
                         IsOpen(b) =>
                            CopiesIn(PeerLeftEvent(last'.conn), inbox'[b])
                              > CopiesIn(PeerLeftEvent(last'.conn), inbox[b])]_vars
    /\ [](\A a \in Conns :
            (status[a] = "closed" /\ Inflight(a) = {}) =>
                \A r \in DOMAIN rooms, b \in Conns \ {a} :
                    \A e \in getOtherPeersProducers(rooms, r, b) : e.peerId # a)

\* C16: a run of removePeer for a peer that is in the room calls close()
\* once on each transport of the peer's transport map and on no other, and
\* takes the peer out of the room; when the room or the peer is absent no
\* transport is closed and the registry stays as it was.
C16_RemovePeerClosesTransports ==
    [][(last'.op \in {"leaveRoom", "disconnect"} /\ last'.roomId # NoRoom) =>
         LET c == last'.conn
             r == last'.roomId
         IN IF HasPeer(rooms, r, c)
            THEN /\ \A id \in DOMAIN engine.transports :
                      engine'.transports[id].closes =
                          engine.transports[id].closes
                            + (IF id \in rooms[r].peers[c].transports THEN 1 ELSE 0)
                 /\ rooms' = [rooms EXCEPT ![r].peers =
                                 [p \in DOMAIN @ \ {c} |-> @[p]]]
            ELSE engine' = engine /\ rooms' = rooms]_vars

C16_Witness ==
    /\ last.op = "leaveRoom"
    /\ \E id \in DOMAIN engine.transports :
         engine.transports[id].conn = last.conn /\ engine.transports[id].closes = 1
    /\ ~HasPeer(rooms, last.roomId, last.conn)

\* C17: a run of handleDisconnect leaves the set of rooms and the router of
\* every room as they were and creates no router; getRouterRtpCapabilities
\* for a room of the registry replies with the capabilities of its router;
\* a joinRoom for a room of the registry starts no createRouter and joins
\* the room with its router unchanged.
C17_EmptiedRoomStays ==
    [][/\ (last'.op \in {"leaveRoom", "disconnect"}) =>
            /\ DOMAIN rooms' = DOMAIN rooms
            /\ \A r \in DOMAIN rooms : rooms'[r].router = rooms[r].router
            /\ routers' = routers
       /\ (last'.op = "getRouterRtpCapabilities" /\ HasRoom(rooms, last'.roomId)) =>
            /\ last'.reply.kind = "ok"
            /\ last'.reply.value.router = rooms[last'.roomId].router
       /\ (last'.op = "joinRoom" /\ last'.seq = last.seq + 1
              /\ HasRoom(rooms, last'.roomId)
              /\ ~OlderThan24h(last'.roomId, now)) =>
            /\ last'.reply.kind = "ok"
            /\ routers' = routers
            /\ tasks' = tasks
            /\ rooms'[last'.roomId].router = rooms[last'.roomId].router]_vars

\* the second peer object made is alone in a room whose router is the only
\* one ever created: the room was emptied and joined again
C17_Witness ==
    /\ last.op = "joinRoom"
    /\ last.reply.kind = "ok"
    /\ PeersOf(rooms, last.roomId) = {last.conn}
    /\ rooms[last.roomId].peers[last.conn].obj = 2
    /\ Cardinality(routers) = 1

\* C18: no run of a handler hands more than one reply to its callback, and
\* a handler that is still suspended has handed none.
C18_AtMostOneReply ==
    /\ last.acks <= 1
    /\ \A t \in tasks : t.req = last.req => last.acks = 0

C18_Witness ==
    /\ last.op = "consume"
    /\ last.reply.kind = "ok"
    /\ last.acks = 1

\* C19: no error leaves a handler, and whenever the catch block of a handler
\* caught an error the request is answered with an error reply.
C19_FailuresBecomeReplies ==
    /\ ~last.escaped
    /\ last.thrown # NoThrow => (last.reply.kind = "error" /\ last.acks = 1)

\* C20: when a handler caught an error with message m, the error of its reply
\* is m, and the request is not in flight any more.
C20_ErrorSurfacedVerbatim ==
    last.thrown # NoThrow =>
        /\ last.reply.kind = "error"
        /\ last.reply.error = last.thrown
        /\ \A t \in tasks : t.req # last.req

\* the router of the room named roomId can consume producerId with the
\* capabilities sent: it has the producer, on an open transport, and the
\* capabilities match
CanConsumeHolds(rms, eng, roomId, producerId, capable) ==
    /\ HasRoom(rms, roomId)
    /\ producerId \in DOMAIN eng.producers
    /\ eng.transports[eng.producers[producerId].transport].router = rms[roomId].router
    /\ eng.transports[eng.producers[producerId].transport].closes = 0
    /\ capable

\* the consumers stored under the peers of the registry
StoredConsumers(rms) ==
    UNION {rms[r].peers[p].consumers : <<r, p>> \in
             {<<r, p>> \in (DOMAIN rms) \X Conns : p \in DOMAIN rms[r].peers}}

\* C21: a consume request for which canConsume is false is answered with an
\* error, starts no call of the engine's consume and leaves every consumer
\* map as it was; a consumer is stored only when a suspended consume, which
\* passed the check, resumes, and every stored consumer is one the engine
\* made for a producer it has.
C21_ConsumerOnlyAfterCanConsume ==
    /\ [](\A id \in StoredConsumers(rooms) :
            /\ id \in DOMAIN engine.consumers
            /\ engine.consumers[id].producerId \in DOMAIN engine.producers)
    /\ [](\A t \in tasks : t.op = "consume" =>
            /\ t.producerId \in DOMAIN engine.producers
            /\ engine.transports[engine.producers[t.producerId].transport].router
                 = t.router)
    /\ [][/\ \A c \in Conns, id \in TransportIds, pid \in ProducerIds,
               capable \in BOOLEAN :
               (/\ ConsumeStart(c, BoundaryId, id, pid, capable)
                /\ ~CanConsumeHolds(rooms, engine, BoundaryId, pid, capable))
               => /\ last'.reply.kind = "error"
                  /\ last'.acks = 1
                  /\ tasks' = tasks
                  /\ engine' = engine
                  /\ rooms' = rooms
          /\ StoredConsumers(rooms') \ StoredConsumers(rooms) # {}
               => \E t \in tasks :
                     /\ t.op = "consume"
                     /\ tasks' = tasks \ {t}
                     /\ engine'.consumers # engine.consumers]_vars

\* a consume that canConsume refused was answered with an error and left
\* the engine without a consumer
C21_Witness ==
    /\ last.op = "consume"
    /\ last.thrown = "Cannot consume"
    /\ last.reply.kind = "error"
    /\ engine.producers # <<>>
    /\ engine.consumers = <<>>

\* the peers of the registry whose transport map holds id
HoldersOf(rms, id) ==
    {<<r, p>> \in (DOMAIN rms) \X Conns :
        p \in DOMAIN rms[r].peers /\ id \in rms[r].peers[p].transports}

OwnTransports(rms, roomId, c) ==
    IF HasPeer(rms, roomId, c) THEN rms[roomId].peers[c].transports ELSE {}

\* the step is answered with an error and starts no call of the engine
RefusedWithoutEngineCall ==
    /\ last'.reply.kind = "error"
    /\ last'.acks = 1
    /\ tasks' = tasks
    /\ engine' = engine
    /\ rooms' = rooms

\* C23: connectTransport, produce and consume given a transport id that is
\* not in the calling peer's own transport map (unknown, or of another peer
\* of the same or another room) are answered with an error and start no
\* call of the engine; every call of the engine they are suspended in is on
\* a transport the engine made for the calling peer.
C23_TransportOwnedByCaller ==
    /\ [](\A t \in tasks :
            t.op \in {"connectTransport", "produce", "consume"}
            => /\ t.transportId \in DOMAIN engine.transports
               /\ engine.transports[t.transportId].conn = t.conn
               /\ engine.transports[t.transportId].peer = t.peer)
    /\ [][\A c \in Conns, roomId \in RoomIds, id \in TransportIds :
            id \notin OwnTransports(rooms, roomId, c)
            => /\ ConnectTransportStart(c, roomId, id) => RefusedWithoutEngineCall
               /\ ProduceStart(c, roomId, id, "video") => RefusedWithoutEngineCall
               /\ \A pid \in ProducerIds :
                     ConsumeStart(c, roomId, id, pid, TRUE)
                     => RefusedWithoutEngineCall]_vars

\* a member of a room was refused a request on the transport of another
\* peer of that room
C23_Witness ==
    /\ last.op \in {"connectTransport", "produce", "consume"}
    /\ last.reply.kind = "error"
    /\ last.thrown = "Transport ${transportId} not found"
    /\ HasPeer(rooms, last.roomId, last.conn)
    /\ \E p \in DOMAIN rooms[last.roomId].peers :
          p # last.conn /\ rooms[last.roomId].peers[p].transports # {}

\* C24: once the media worker has died, the server process eventually exits
\* with a non-zero status, whatever requests are suspended at that moment.
C24_DeadWorkerExits ==
    (proc.worker = "dead") ~> (proc.exited /\ proc.code # 0)

\* the process exited with status 1, exitDelay or more after the start,
\* while a room had a peer
C24_Witness ==
    /\ proc.exited
    /\ proc.code = 1
    /\ proc.worker = "dead"
    /\ now >= StartTime + exitDelay
    /\ PeersOf(rooms, BoundaryId) # {}

\* the Peer object obj is the one some room of the registry holds
InRegistry(rms, obj) ==
    \E r \in DOMAIN rms : \E p \in DOMAIN rms[r].peers : rms[r].peers[p].obj = obj

\* C25: once a peer has been removed and no handler is suspended, every
\* transport the engine made on that peer's behalf is closed, also when the
\* peer was removed while createWebRtcTransport was suspended.
C25_NoTransportOutlivesPeer ==
    \A id \in DOMAIN engine.transports :
        (/\ engine.transports[id].conn \in hist.left
         /\ ~InRegistry(rooms, engine.transports[id].peer)
         /\ tasks = {})
        => engine.transports[id].closes > 0

\* the newProducer events for peer p, counted over all inboxes
NewProducerCount(inb, p) ==
    LET evs(d) == {e \in BagToSet(inb[d]) : e.type = "newProducer" /\ e.peerId = p}
        RECURSIVE Sum(_, _)
        Sum(d, es) == IF es = {} THEN 0
                      ELSE LET e == CHOOSE x \in es : TRUE
                           IN CopiesIn(e, inb[d]) + Sum(d, es \ {e})
        RECURSIVE Total(_)
        Total(ds) == IF ds = {} THEN 0
                     ELSE LET d == CHOOSE x \in ds : TRUE
                          IN Sum(d, evs(d)) + Total(ds \ {d})
    IN Total(Conns)

\* peerLeft for peer p has been delivered to some connection
PeerLeftDelivered(inb, p) ==
    \E d \in Conns : CopiesIn(PeerLeftEvent(p), inb[d]) > 0

\* C26: a produce that finishes registers its producer for a peer that is
\* still in the room, and no newProducer for a peer is broadcast once its
\* peerLeft has been broadcast and it has not joined again, also when the
\* peer disconnects while its produce is suspended.
C26_NoProducerAfterPeerLeft ==
    [][/\ (/\ last'.op = "produce"
           /\ last'.reply.kind = "ok"
           /\ last' # last)
          => /\ HasPeer(rooms, last'.roomId, last'.conn)
             /\ last'.reply.value.producerId
                  \in DOMAIN rooms'[last'.roomId].peers[last'.conn].producers
       /\ \A p \in Conns :
            (/\ PeerLeftDelivered(inbox, p)
             /\ ~HasPeer(rooms, BoundaryId, p))
            => NewProducerCount(inbox', p) = NewProducerCount(inbox, p)]_vars

\* C27: every consumer stored under a peer is one of a producer that a
\* different peer of the same room owns.
C27_NoConsumerOfOwnProducer ==
    \A r \in DOMAIN rooms : \A p \in DOMAIN rooms[r].peers :
        \A id \in rooms[r].peers[p].consumers :
            LET producerId == engine.consumers[id].producerId
            IN /\ engine.producers[producerId].conn # p
               /\ \E q \in DOMAIN rooms[r].peers :
                     q # p /\ producerId \in DOMAIN rooms[r].peers[q].producers

\* connection c joined a room, sent leaveRoom, which was handled, and is
\* still connected
LeftExplicitly(c) ==
    /\ c \in hist.left
    /\ \E j \in hist.joined : j[1] = c
    /\ IsOpen(c)

\* C28: once the leaveRoom of a connection has been handled, no later
\* request of that connection adds a peer for it to any room or starts a
\* call of the engine for it.
C28_ClosedIsTerminal ==
    [][\A c \in Conns :
          (/\ LeftExplicitly(c)
           /\ last'.seq = last.seq + 1
           /\ last'.conn = c)
          => /\ \A r \in DOMAIN rooms' : c \in PeersOf(rooms', r) => c \in PeersOf(rooms, r)
             /\ \A t \in tasks' \ tasks : t.conn # c]_vars

\* the handler of request number r has just replied
Answered(r) == last.req = r /\ last.acks = 1

\* C29: every request that arrives, leaveRoom apart (it has no reply), is
\* eventually answered, given that every call of the media worker returns,
\* whatever requests of other connections on the same room run in between.
C29_EveryRequestAnswered ==
    \A r \in 1..MaxSteps :
        (last.req = r /\ last.seq = r /\ last.op # "leaveRoom") ~> Answered(r)

\* the connections that hold a successful joinRoom reply for roomId and have
\* not left
JoinedAndStayed(roomId) == {a \in Conns : <<a, roomId>> \in hist.joined /\ a \notin hist.left}

\* C30: when a joinRoom of connection b succeeds, every connection a that
\* holds a successful reply for the same room id and has not left is in the
\* roster of b's reply and receives newPeer for b, so that each of the two
\* knows of the other, also when the two joins overlapped.
C30_MutualAwareness ==
    [][(/\ last'.op = "joinRoom"
        /\ last'.reply.kind = "ok"
        /\ last' # last)
       => \A a \in JoinedAndStayed(last'.roomId) \ {last'.conn} :
             /\ a \in {p.peerId : p \in last'.reply.peers}
             /\ CopiesIn(NewPeerEvent(last'.conn, UserIdOf(last'.conn),
                                      UsernameOf(last'.conn)), inbox'[a])
                  > CopiesIn(NewPeerEvent(last'.conn, UserIdOf(last'.conn),
                                          UsernameOf(last'.conn)), inbox[a])]_vars

\* C31: whenever no handler is suspended, a connection is subscribed to the
\* broadcast group of a room exactly when the registry's room of that id
\* holds a peer entry for it.
C31_SubscriptionsMatchRegistry ==
    tasks = {} =>
      \A c \in Conns : \A r \in known \cup (DOMAIN rooms) \cup subs[c] :
          (r \in subs[c]) <=> HasPeer(rooms, r, c)

\* C32: a step in which a handler replies {error} changes neither the
\* registry nor the broadcast subscriptions and delivers no event; the one
\* step of a request that changes the registry before the reply, the
\* creation of the room, is followed by a successful reply.
C32_ErrorReplyChangesNothing ==
    /\ [](\A t \in tasks : t.stage = "roomReady" => HasRoom(rooms, t.roomId))
    /\ [][/\ (last' # last /\ last'.reply.kind = "error")
               => /\ rooms' = rooms
                  /\ subs' = subs
                  /\ inbox' = inbox
          /\ \A t \in tasks :
               (t.stage = "roomReady" /\ t \notin tasks')
               => /\ last'.req = t.req
                  /\ last'.reply.kind = "ok"]_vars

\* the engine rejected a call of a peer that holds a transport, and the
\* handler replied with an error
C32_Witness ==
    /\ last.reply.kind = "error"
    /\ last.thrown = EngineFailure
    /\ HasPeer(rooms, last.roomId, last.conn)
    /\ rooms[last.roomId].peers[last.conn].transports # {}

\* C33: an id is found not expired only at instants from its timestamp to 24
\* hours after it, so the instants at which it is joinable span at most 24
\* hours and an id whose timestamp lies in the future is expired.
C33_JoinableAtMost24h ==
    (/\ expOut.called
     /\ expOut.id # NotAString
     /\ IsDecimalInteger(TrailingSegment(expOut.id))
     /\ ~expOut.expired)
    => /\ DecimalValue(TrailingSegment(expOut.id)) <= expOut.at
       /\ expOut.at <= DecimalValue(TrailingSegment(expOut.id)) + twentyFourHours

\* the recording is in metadata.json / its file is in recordings/
InMetadata(id) == \E m \in 1..Len(disk.metadata) : disk.metadata[m].recordingId = id
Removed(id) == ~InMetadata(id) /\ id \notin disk.files

\* DELETE /api/recordings/:id just answered 200 for id
DeleteAccepted(id) == http.method = "delete" /\ http.status = 200 /\ http.id = id

\* C34: the DELETE endpoint replies without waiting for the deletion (the
\* step that answers 200 leaves metadata and files as they are), and every
\* recording id it enqueued is eventually gone from the metadata and from
\* the recordings directory, given that the processor was started, its timer
\* keeps firing and only finitely many file-system calls fail.
C34_AcceptedDeletionCompletes ==
    /\ [][\A id \in RecIds :
            (http'.seq # http.seq /\ DeleteAccepted(id)')
            => disk' = disk /\ InMetadata(id)']_vars
    /\ \A id \in RecIds : DeleteAccepted(id) ~> Removed(id)

\* tasks for recording id waiting in the queue
Pending(q, id) == Cardinality({k \in 1..Len(q.queue) : q.queue[k].recordingId = id})

\* a call of deleteRecordingFiles threw in this step, for the recording id
ThrowStep(id) ==
    /\ trail'.thrown = trail.thrown + 1
    /\ trail'.handled[id] = trail.handled[id] + 1

\* C35: when deleting a recording throws, exactly one task for the same id
\* is appended to the queue and nothing else is; the task is not put into
\* the snapshot of the running pass, whose remaining tasks stay to be
\* processed; every queued task is taken by a later pass, and every pass
\* ends with the processing flag reset.
C35_ThrowRequeuesOnce ==
    /\ [][\A id \in RecIds :
            ThrowStep(id) =>
              /\ dq'.queue = Append(IF dq.processing THEN dq.queue ELSE <<>>,
                                    [recordingId |-> id, scheduledAt |-> now])
              /\ dq'.processing
              /\ dq'.passes = <<Tail(IF dq.processing THEN dq.passes[1] ELSE dq.queue)>>]_vars
    /\ \A id \in RecIds : (Pending(dq, id) > 0) ~> (Pending(dq, id) = 0)
    /\ dq.processing ~> (~dq.processing /\ dq.passes = <<>>)

\* a deletion threw, was tried again by a later pass and went through
C35_Witness ==
    /\ trail.thrown > 0
    /\ \E id \in RecIds :
         /\ trail.requeued[id] > 0
         /\ trail.handled[id] > trail.requeued[id]
         /\ Removed(id)
    /\ ~dq.processing

\* tasks for recording id in the snapshots of the suspended passes
Held(q, id) ==
    Cardinality(UNION {{<<p, k>> : k \in {j \in 1..Len(q.passes[p]) :
                                            q.passes[p][j].recordingId = id}} :
                       p \in 1..Len(q.passes)})

\* C36: at most one pass of processQueue is active at any time, the
\* processing flag is set exactly while it is, and no task is lost: for every
\* recording id, the tasks enqueued by DELETE or re-queued by a failure are
\* those pending in the queue, those in the snapshot of the active pass and
\* those already handed to deleteRecordingFiles.
C36_OnePassNoTaskLost ==
    /\ Len(dq.passes) <= 1
    /\ dq.processing <=> dq.passes # <<>>
    /\ \A id \in RecIds :
         trail.enqueued[id] + trail.requeued[id]
           = Pending(dq, id) + Held(dq, id) + trail.handled[id]

\* a pass is suspended with a task left in its snapshot while a task that
\* DELETE enqueued meanwhile waits in the queue
C36_Witness ==
    /\ dq.processing
    /\ Len(dq.passes) = 1
    /\ dq.passes[1] # <<>>
    /\ dq.queue # <<>>
    /\ \A id \in RecIds : trail.requeued[id] = 0

\* the owner recorded for recording id, Absent when there is none
OwnerOf(d, id) == findRecordingById(d, id, TRUE).userId
TitleOf(d, id) == findRecordingById(d, id, TRUE).title

\* the request just served: a DELETE or a PUT (with a title) for recording id
\* that the handler found
ServedFor(id) ==
    /\ http'.seq # http.seq
    /\ http'.method \in {"delete", "put"}
    /\ http'.id = id
    /\ InMetadata(id)
    /\ http'.status \notin {400, 404}

\* C37: a recording is enqueued for deletion or has its title changed only
\* by a request whose userId equals the owner of the recording; every other
\* request for an existing recording is answered 403 and leaves the deletion
\* queue and the metadata unchanged.
C37_OnlyOwnerDeletesOrRenames ==
    [][\A id \in RecIds :
         ServedFor(id) =>
           /\ (dq'.queue # dq.queue \/ TitleOf(disk', id) # TitleOf(disk, id))
                => http'.userId = OwnerOf(disk, id)
           /\ http'.userId # OwnerOf(disk, id)
                => /\ http'.status = 403
                   /\ dq' = dq
                   /\ disk' = disk]_vars

\* C38: all the register requests with one username were answered with the
\* same userId, and users.json never holds two users with the same username.
C38_OneUserIdPerUsername ==
    /\ \A p, q \in trail.returned : p[1] = q[1] => p[2] = q[2]
    /\ \A i, j \in 1..Len(disk.users) :
         disk.users[i].username = disk.users[j].username => i = j

\* requests for a receive transport the server has granted or not yet answered
RecvAsked ==
    Cardinality({run \in client.runs : run.stage = "creating"})
      + Cardinality(client.serverTransports) - 1

\* C39: the WebRTCManager asks the server for at most one receive
\* transport (a request answered with an error aside), so the peer never
\* holds more than two transports on the server (one to send, one to
\* receive), however the newProducer events and the loop of
\* getExistingProducers interleave.
C39_OneRecvTransport ==
    /\ RecvAsked <= 1
    /\ Cardinality(client.serverTransports) <= 2

=============================================================================
